---- MODULE Spec2Model ----
(***************************************************************************)
(* A model of the review-hub collection / identity / reconciliation       *)
(* engine: the flock-based ProcessLock (review_hub/lock.py), the           *)
(* file-backed IdentityStore (review_hub/state.py), the sheet sink and its *)
(* writers (review_hub/sheets_client.py, ingest_*.py, collect_*.py), the   *)
(* run orchestration (run_pipeline.py) and the collectors' discovery and   *)
(* pagination loops (collect_coupang_browser.py, collect_ohou_browser.py,  *)
(* collect_wadiz_qa.py).                                                   *)
(*                                                                         *)
(* Each component has its own specification (SpecLock, SpecStore, ...)     *)
(* over the shared variables; a variable a specification does not use      *)
(* keeps its initial value.                                                *)
(***************************************************************************)
EXTENDS Integers, Sequences, FiniteSets, TLC

VARIABLES
  pc,        \* process -> control point
  flock,     \* lock path -> process holding the exclusive flock, or NoProc
  lk,        \* process -> frame of its file_lock call (SpecLock)
  file,      \* IdentityStore backing file: the sequence of its lines
  am,        \* process -> frame of its TextSet.add_many call
  sink,      \* the sheet tab: row number -> row
  cfg,       \* configuration of the ingesters (environment variables)
  now,       \* the clock (time.time()) of the bounded-time loops
  ing,       \* process -> locals of its ingestion run
  obs,       \* observations of finished calls (return values, written ranges)
  lockFile   \* run_pipeline: holder recorded in state/review-hub/pipeline.lock

vars == <<pc, flock, lk, file, am, sink, cfg, now, ing, obs, lockFile>>

NoProc == "none"

\* ---------------------------------------------------------------- bounds
MaxRuns == 2          \* invocations per process in SpecLock
MaxItems == 2         \* length of the list passed to one add_many call
MaxCalls == 1         \* add_many calls per process in SpecStore
MaxBatch == 2         \* reviews in one input file of an ingester
MaxSheetRow == 7      \* last row of the modelled sheet grid

\* ------------------------------------------------------------ generic sets
Procs == {"p1", "p2", "p3"}

\* Lock files. "resA"/"resB" are two arbitrary paths (SpecLock); the others are
\* the paths the program uses.
GenericPaths == {"resA", "resB"}
DedupLock == "dedup-keys.txt.lock"          \* state.py:22  path + ".lock"
SheetsLock == "review-hub-sheets.lock"      \* sheets_client.py:27
\* collect_coupang_browser.py:25, collect_ohou_browser.py:23,
\* collect_wadiz_qa.py:23  DEFAULT_COLLECTOR_LOCK, one per source
Sources == {"coupang", "ohou", "wadiz"}
CollectorLock(src) == src
LockPaths == GenericPaths \cup {DedupLock, SheetsLock} \cup Sources

\* ------------------------------------------------------------- flock (OS)
\* fcntl.flock(fd, LOCK_EX) returns only when no other open file description
\* holds the lock on the file.
FlockFreeNoCheck(path) == TRUE

FlockFree(path) == flock[path] = NoProc

FlockAcquire(p, path) ==
  /\ FlockFree(path)
  /\ flock' = [flock EXCEPT ![path] = p]

\* A finally clause that leaves the lock as it is.
FlockKeep(p, path) == flock' = flock

\* fcntl.flock(fd, LOCK_UN), and the close of the descriptor (by f.close() or by
\* the OS when the process dies), drop the lock only if this descriptor holds it.
FlockRelease(p, path) ==
  flock' = [flock EXCEPT ![path] = IF @ = p THEN NoProc ELSE @]

FlockReleaseAll(p) ==
  flock' = [q \in DOMAIN flock |-> IF flock[q] = p THEN NoProc ELSE flock[q]]

\* ------------------------------------------------- initial values (shared)
InitFlock == [q \in LockPaths |-> NoProc]
InitLk == [p \in Procs |-> [path |-> "resA", exc |-> FALSE, runs |-> 0]]

IdleRest ==
  /\ file = <<>>
  /\ am = <<>>
  /\ sink = <<>>
  /\ cfg = <<>>
  /\ now = 1
  /\ ing = <<>>
  /\ obs = <<>>
  /\ lockFile = NoProc

\* =========================================================================
\* SpecLock: processes calling file_lock(path) around a body  (lock.py)
\* =========================================================================
InitLock ==
  /\ pc = [p \in Procs |-> "idle"]
  /\ flock = InitFlock
  /\ lk = InitLk
  /\ IdleRest

restLock == <<file, am, sink, cfg, now, ing, obs, lockFile>>

\* lock.py:13-14  makedirs + open(path, "a+"): creates the file if missing
LockOpen(p) ==
  /\ pc[p] = "idle"
  /\ lk[p].runs < MaxRuns
  /\ \E path \in GenericPaths :
       lk' = [lk EXCEPT ![p] = [path |-> path, exc |-> FALSE, runs |-> @.runs + 1]]
  /\ pc' = [pc EXCEPT ![p] = "opened"]
  /\ UNCHANGED <<flock, restLock>>

\* lock.py:18-19  flock(LOCK_EX) blocks until granted, then the body runs
LockFlock(p) ==
  /\ pc[p] = "opened"
  /\ FlockAcquire(p, lk[p].path)
  /\ pc' = [pc EXCEPT ![p] = "body"]
  /\ UNCHANGED <<lk, restLock>>

\* lock.py:18  flock itself raises (ENOLCK, ...): the finally clause runs
LockFlockFails(p) ==
  /\ pc[p] = "opened"
  /\ pc' = [pc EXCEPT ![p] = "unlock"]
  /\ lk' = [lk EXCEPT ![p].exc = TRUE]
  /\ UNCHANGED <<flock, restLock>>

\* lock.py:19-20  the body returns
BodyReturn(p) ==
  /\ pc[p] = "body"
  /\ pc' = [pc EXCEPT ![p] = "unlock"]
  /\ UNCHANGED <<flock, lk, restLock>>

\* lock.py:19-20  the body raises
BodyRaise(p) ==
  /\ pc[p] = "body"
  /\ pc' = [pc EXCEPT ![p] = "unlock"]
  /\ lk' = [lk EXCEPT ![p].exc = TRUE]
  /\ UNCHANGED <<flock, restLock>>

\* lock.py:21-26  finally: flock(LOCK_UN)
LockUnlock(p) ==
  /\ pc[p] = "unlock"
  /\ FlockRelease(p, lk[p].path)
  /\ pc' = [pc EXCEPT ![p] = "close"]
  /\ UNCHANGED <<lk, restLock>>

\* lock.py:27-30  f.close(); the call returns or re-raises
LockClose(p) ==
  /\ pc[p] = "close"
  /\ pc' = [pc EXCEPT ![p] = IF lk[p].exc THEN "raised" ELSE "returned"]
  /\ UNCHANGED <<flock, lk, restLock>>

\* The process dies (SIGKILL, power loss): the OS closes its descriptors.
LockCrash(p) ==
  /\ pc[p] \in {"opened", "body", "unlock", "close"}
  /\ FlockReleaseAll(p)
  /\ pc' = [pc EXCEPT ![p] = "dead"]
  /\ UNCHANGED <<lk, restLock>>

\* A later invocation (a scheduler starts the program again).
LockAgain(p) ==
  /\ pc[p] \in {"returned", "raised", "dead"}
  /\ lk[p].runs < MaxRuns
  /\ pc' = [pc EXCEPT ![p] = "idle"]
  /\ UNCHANGED <<flock, lk, restLock>>

NextLock ==
  \E p \in Procs :
    \/ LockOpen(p)
    \/ LockFlock(p)
    \/ LockFlockFails(p)
    \/ BodyReturn(p)
    \/ BodyRaise(p)
    \/ LockUnlock(p)
    \/ LockClose(p)
    \/ LockCrash(p)
    \/ LockAgain(p)

SpecLock == InitLock /\ [][NextLock]_vars

\* C1: two processes that call file_lock with the same path are never both
\* inside the body (their critical sections never overlap).
C1_MutualExclusion ==
  \A p, q \in Procs :
    (p # q /\ pc[p] = "body" /\ pc[q] = "body") => lk[p].path # lk[q].path

\* C1 witness: one process is in its critical section while another has opened
\* the same lock file and is blocked in flock.
C1_Witness ==
  \E p, q \in Procs :
    /\ p # q
    /\ pc[p] = "body"
    /\ pc[q] = "opened"
    /\ lk[p].path = lk[q].path

\* C11: when the body under file_lock raised and the exception has reached the
\* caller, the caller no longer holds the lock, and the lock is then free or
\* held by a process inside its own file_lock block, so a process blocked on
\* the path is granted the lock.
C11_ReleasedOnException ==
  \A p \in Procs :
    (pc[p] = "raised") =>
       /\ flock[lk[p].path] # p
       /\ \/ FlockFree(lk[p].path)
          \/ pc[flock[lk[p].path]] \in {"body", "unlock"}

\* C11 witness: the exception of p's body has propagated, and a process that
\* had opened the same lock file is now inside the body while a third one is
\* still blocked on it.
C11_Witness ==
  \E p, q, r \in Procs :
    /\ p # q /\ q # r /\ p # r
    /\ pc[p] = "raised"
    /\ pc[q] = "body" /\ lk[q].path = lk[p].path
    /\ pc[r] = "opened" /\ lk[r].path = lk[p].path

\* =========================================================================
\* SpecStore: independent processes calling TextSet.add_many  (state.py)
\* =========================================================================
Keys == {"k1", "k2"}
EmptyKey == ""
StoreProcs == {"p1", "p2"}

\* The sequences over S of length at most n.
SeqsUpTo(S, n) == UNION {[1..m -> S] : m \in 0..n}

Range(s) == {s[i] : i \in DOMAIN s}

\* state.py:14-18 returning the empty set whatever the file holds.
LoadEmpty(f) == {}

\* state.py:14-18  load(): the set of the file's non-blank lines (a missing
\* file is the empty set).
Load(f) == Range(f) \ {EmptyKey}

\* state.py:25 without the membership test (append-assume-unique).
NewItemsAssumeUnique(items, existing) ==
  SelectSeq(items, LAMBDA i : i # EmptyKey)

\* state.py:25 selecting nothing.
NewItemsNone(items, existing) == <<>>

\* state.py:25  new_items = [i for i in items if i and i not in existing]
NewItems(items, existing) ==
  SelectSeq(items, LAMBDA i : i # EmptyKey /\ i \notin existing)

\* No key occurs twice in the list.
NoRepeat(items) ==
  \A i, j \in DOMAIN items : (i # j /\ items[i] # EmptyKey) => items[i] # items[j]

\* No key is on two lines of the file.
NoDupLines(f) ==
  \A i, j \in DOMAIN f : (i # j /\ f[i] # EmptyKey) => f[i] # f[j]

\* The frame of a process that is not inside add_many.
NoFrame(calls) ==
  [items |-> <<>>, existing |-> {}, newItems |-> <<>>, idx |-> 1,
   result |-> 0, calls |-> calls]

InitAm == [p \in Procs |-> NoFrame(0)]

InitStore ==
  /\ pc = [p \in Procs |-> "idle"]
  /\ flock = InitFlock
  /\ lk = InitLk
  /\ file \in {<<>>, <<"k1">>}
  /\ am = InitAm
  /\ sink = <<>>
  /\ cfg = <<>>
  /\ now = 1
  /\ ing = <<>>
  /\ obs = [store0 |-> Load(file), sumRet |-> 0, called |-> {},
            repeat |-> FALSE, crashed |-> FALSE]
  /\ lockFile = NoProc

restStore == <<lk, sink, cfg, now, ing, lockFile>>

\* state.py:20-23  add_many(items): makedirs, then file_lock opens the lock file
AmCall(p) ==
  /\ pc[p] = "idle"
  /\ am[p].calls < MaxCalls
  /\ \E items \in SeqsUpTo(Keys \cup {EmptyKey}, MaxItems) :
       /\ am' = [am EXCEPT ![p] = [items |-> items, existing |-> {},
                                   newItems |-> <<>>, idx |-> 1, result |-> 0,
                                   calls |-> @.calls + 1]]
       /\ obs' = [obs EXCEPT !.repeat = @ \/ ~NoRepeat(items)]
  /\ pc' = [pc EXCEPT ![p] = "am_open"]
  /\ UNCHANGED <<flock, file, restStore>>

\* state.py:23, lock.py:18  flock(LOCK_EX) on path + ".lock"
AmLock(p) ==
  /\ pc[p] = "am_open"
  /\ FlockAcquire(p, DedupLock)
  /\ pc' = [pc EXCEPT ![p] = "am_load"]
  /\ UNCHANGED <<file, am, obs, restStore>>

\* state.py:24-28  existing = self.load(); new_items; return 0 if none, else
\* open the file for append
AmLoad(p) ==
  /\ pc[p] = "am_load"
  /\ LET existing == Load(file)
         new == NewItems(am[p].items, existing)
     IN /\ am' = [am EXCEPT ![p].existing = existing, ![p].newItems = new,
                            ![p].idx = 1, ![p].result = 0]
        /\ pc' = [pc EXCEPT ![p] = IF new = <<>> THEN "am_unlock" ELSE "am_write"]
  /\ UNCHANGED <<flock, file, obs, restStore>>

\* state.py:29-30  f.write(i + "\n"), one line after the other
AmWriteLine(p) ==
  /\ pc[p] = "am_write"
  /\ am[p].idx <= Len(am[p].newItems)
  /\ file' = Append(file, am[p].newItems[am[p].idx])
  /\ am' = [am EXCEPT ![p].idx = @ + 1]
  /\ UNCHANGED <<pc, flock, obs, restStore>>

\* state.py:31  return len(new_items)
AmWritten(p) ==
  /\ pc[p] = "am_write"
  /\ am[p].idx > Len(am[p].newItems)
  /\ am' = [am EXCEPT ![p].result = Len(am[p].newItems)]
  /\ pc' = [pc EXCEPT ![p] = "am_unlock"]
  /\ UNCHANGED <<flock, file, obs, restStore>>

\* lock.py:20-30  finally: unlock, close; add_many returns its result
AmUnlock(p) ==
  /\ pc[p] = "am_unlock"
  /\ FlockRelease(p, DedupLock)
  /\ obs' = [obs EXCEPT !.sumRet = @ + am[p].result,
                        !.called = @ \cup Load(am[p].items)]
  /\ am' = [am EXCEPT ![p] = NoFrame(@.calls)]
  /\ pc' = [pc EXCEPT ![p] = "idle"]
  /\ UNCHANGED <<file, restStore>>

\* The process dies inside add_many; the OS drops its flock.
AmCrash(p) ==
  /\ pc[p] \in {"am_open", "am_load", "am_write", "am_unlock"}
  /\ FlockReleaseAll(p)
  /\ obs' = [obs EXCEPT !.crashed = TRUE]
  /\ am' = [am EXCEPT ![p] = NoFrame(@.calls)]
  /\ pc' = [pc EXCEPT ![p] = "idle"]
  /\ UNCHANGED <<file, restStore>>

NextStore ==
  \E p \in StoreProcs :
    \/ AmCall(p)
    \/ AmLock(p)
    \/ AmLoad(p)
    \/ AmWriteLine(p)
    \/ AmWritten(p)
    \/ AmUnlock(p)
    \/ AmCrash(p)

SpecStore == InitStore /\ [][NextStore]_vars

StoreQuiet == \A p \in StoreProcs : pc[p] = "idle"

\* C2: when the concurrent add_many calls (none repeating a key inside one
\* call) have all returned, every key is on exactly one line of the backing
\* file, and the return values add up to the number of distinct keys that
\* were not in the store before.
C2_ConcurrentAddMany ==
  ~obs.repeat =>
     /\ NoDupLines(file)
     /\ (StoreQuiet /\ ~obs.crashed) =>
           /\ Load(file) = obs.store0 \cup obs.called
           /\ obs.sumRet = Cardinality(obs.called \ obs.store0)

\* C2 witness: a call has written its new keys and is about to return while a
\* second call, whose list shares a key with it and holds another one, waits
\* for the lock.
C2_Witness ==
  \E p, q \in StoreProcs :
    /\ p # q
    /\ ~obs.repeat /\ ~obs.crashed
    /\ pc[p] = "am_unlock" /\ am[p].result > 0
    /\ pc[q] = "am_open"
    /\ Load(am[p].items) \cap Load(am[q].items) # {}
    /\ Load(am[q].items) \ Load(am[p].items) # {}

AddManyResult(f, items) == Len(NewItems(items, Load(f)))

\* state.py:24-30  the file after add_many(items)
AddManyFile(f, items) == f \o NewItems(items, Load(f))

\* Any store without a repeated line, any list K (blank entries and repeats
\* included).
InitAddTwice ==
  /\ pc = [p \in Procs |-> "idle"]
  /\ flock = InitFlock
  /\ lk = InitLk
  /\ file \in {f \in SeqsUpTo(Keys, MaxItems) : NoDupLines(f)}
  /\ am = InitAm
  /\ sink = <<>>
  /\ cfg = <<>>
  /\ now = 1
  /\ ing = <<>>
  /\ \E K \in SeqsUpTo(Keys \cup {EmptyKey}, MaxItems) :
       obs = [K |-> K, file0 |-> file, r1 |-> 0, file1 |-> <<>>, r2 |-> 0]
  /\ lockFile = NoProc

\* the first add_many(K)
TwiceFirst ==
  /\ pc["p1"] = "idle"
  /\ file' = AddManyFile(file, obs.K)
  /\ obs' = [obs EXCEPT !.r1 = AddManyResult(file, obs.K),
                        !.file1 = AddManyFile(file, obs.K)]
  /\ pc' = [pc EXCEPT !["p1"] = "once"]
  /\ UNCHANGED <<flock, am, restStore>>

\* the add_many(K) that follows it
TwiceSecond ==
  /\ pc["p1"] = "once"
  /\ file' = AddManyFile(file, obs.K)
  /\ obs' = [obs EXCEPT !.r2 = AddManyResult(file, obs.K)]
  /\ pc' = [pc EXCEPT !["p1"] = "twice"]
  /\ UNCHANGED <<flock, am, restStore>>

NextAddTwice ==
  \/ TwiceFirst
  \/ TwiceSecond

SpecAddTwice == InitAddTwice /\ [][NextAddTwice]_vars

\* The store held none of the entries of K when the first call started.
FreshFor(K, f) == Range(K) \cap Load(f) = {}

C14_OnlyNewKeys ==
  (pc["p1"] \in {"once", "twice"}) =>
     /\ obs.r1 = Cardinality(Load(obs.file1) \ Load(obs.file0))
     /\ NoDupLines(file)

\* =========================================================================
\* The sheet sink and its writers
\*   sheets_client.py (get, update, append_fixed), ingest_ohou_json.py
\*   (Reconcile), ingest_coupang_json.py / collect_reviews.py /
\*   collect_wadiz_qa.py (append-only ingestion)
\* =========================================================================
\* A review as an ingester reads it: k is its identity key (the hash of
\* platform, product URL, author, review date and body hash), v stands for the
\* columns outside the key (brand, product name, review id, rating, title).
Reviews ==
  { [k |-> "k1", v |-> 1], [k |-> "k1", v |-> 2], [k |-> "k3", v |-> 1] }

StartRow == 3
SheetRowNums == StartRow..MaxSheetRow

\* A sheet row, columns A..O: a is column A (collected_date; "" is a blank
\* cell), k is column N (dedup_key), v the other columns.
EmptyRow == [a |-> "", k |-> "", v |-> 0]
RowOf(rec) == [a |-> "date", k |-> rec.k, v |-> rec.v]

\* re.compile(r"^\d{4}-\d{2}-\d{2}$").search(v.strip())
IsDate(a) == a = "date"

Max2(a, b) == IF a >= b THEN a ELSE b
Min2(a, b) == IF a <= b THEN a ELSE b
MaxOf(S) == CHOOSE x \in S : \A y \in S : y <= x
MinOf(S) == CHOOSE x \in S : \A y \in S : x <= y

KeysOfSeq(recs) == [i \in DOMAIN recs |-> recs[i].k]

\* sheets_client.py:99-112  get(range) of one column: the cells of the rows
\* first..last that lie in the grid
GetColumn(col, first, last) ==
  [r \in first..Min2(last, MaxSheetRow) |-> IF col = "A" THEN sink[r].a ELSE sink[r].k]

\* sheets_client.py:114-139  update(range, values): the cells of the range
\* take the values, row by row
WriteRows(sheet, start, recs) ==
  [r \in DOMAIN sheet |->
     IF r >= start /\ r < start + Len(recs) THEN RowOf(recs[r - start + 1])
     ELSE sheet[r]]

\* The range lies inside the grid (the API rejects an update outside it).
InGrid(start, n) == start + n - 1 <= MaxSheetRow

\* ingest_ohou_json.py:186-193, sheets_client.py:183-187
\* last = the last scanned row whose column A matches the date pattern
LastDateRow(colA) ==
  MaxOf({StartRow - 1} \cup {r \in DOMAIN colA : IsDate(colA[r])})

\* ingest_ohou_json.py:185-197  key_to_row: the first row holding each key
\* (rows with a blank column A are skipped)
KeyToRow(colA, colN) ==
  LET both == DOMAIN colA \cap DOMAIN colN
      rowsOf(k) == {r \in both : colA[r] # "" /\ colN[r] = k}
      present == {colN[r] : r \in {x \in both : colA[x] # "" /\ colN[x] # ""}}
  IN [k \in present |-> MinOf(rowsOf(k))]

\* ingest_ohou_json.py:203-206  to_update: (row number, payload) of the rows
\* whose key is in key_to_row, in input order
RECURSIVE ToUpdate(_, _)
ToUpdate(rows, keyToRow) ==
  IF rows = <<>> THEN <<>>
  ELSE LET r == Head(rows)
           rest == ToUpdate(Tail(rows), keyToRow)
       IN IF r.k \in DOMAIN keyToRow
          THEN <<[row |-> keyToRow[r.k], rec |-> r]>> \o rest
          ELSE rest

\* ingest_ohou_json.py:207-210  to_append (and new_keys, its keys)
ToAppend(rows, keyToRow) ==
  SelectSeq(rows, LAMBDA r : r.k \notin DOMAIN keyToRow)

\* ingest_ohou_json.py:214  to_update.sort(key=row number)  (a stable sort)
RECURSIVE SortByRow(_)
SortByRow(s) ==
  IF Len(s) <= 1 THEN s
  ELSE LET front == SortByRow(SubSeq(s, 1, Len(s) - 1))
           x == s[Len(s)]
           n == Cardinality({i \in DOMAIN front : front[i].row <= x.row})
       IN SubSeq(front, 1, n) \o <<x>> \o SubSeq(front, n + 1, Len(front))

\* ingest_ohou_json.py:229-244 flushing after every row.
FirstRunLenOne(s) == IF s = <<>> THEN 0 ELSE 1

\* ingest_ohou_json.py:229-244  the length of the first run of consecutive
\* row numbers of the sorted list
RECURSIVE FirstRunLen(_)
FirstRunLen(s) ==
  IF Len(s) <= 1 THEN Len(s)
  ELSE IF s[2].row = s[1].row + 1 THEN 1 + FirstRunLen(Tail(s))
  ELSE 1

\* ingest_coupang_json.py:57-109  rows: the reviews whose key is not in seen,
\* each key once (seen.add as the loop goes)
RECURSIVE FilterSeen(_, _)
FilterSeen(reviews, seen) ==
  IF reviews = <<>> THEN <<>>
  ELSE LET r == Head(reviews)
       IN IF r.k \in seen THEN FilterSeen(Tail(reviews), seen)
          ELSE <<r>> \o FilterSeen(Tail(reviews), seen \cup {r.k})

\* state.py:20-31 writing nothing.
AddNothing(f, items) == f

\* state.py:20-31  add_many as one step (its calls are serialized by the flock
\* on the store's lock file): the file after the call
AddMany(f, items) == f \o NewItems(items, Load(f))

\* The prefixes of a sequence.
Prefixes(s) == {SubSeq(s, 1, n) : n \in 0..Len(s)}

NoIng ==
  [kind |-> "none", src |-> "", reviews |-> <<>>, rows |-> <<>>, seen |-> {},
   colA |-> <<>>, last |-> 0, keyToRow |-> <<>>, toUpdate |-> <<>>,
   toAppend |-> <<>>, i |-> 0, chunk |-> 0, nextRow |-> 0,
   updated |-> 0, appended |-> 0, sink0 |-> <<>>, writes |-> <<>>]

InitIng == [p \in Procs |-> NoIng]

EmptySink == [r \in SheetRowNums |-> EmptyRow]

\* The sheet after an earlier run ingested k1, k2, k3 (one row each).
FilledSink ==
  WriteRows(EmptySink, StartRow,
            <<[k |-> "k1", v |-> 1], [k |-> "k2", v |-> 1], [k |-> "k3", v |-> 1]>>)

\* The sheet after earlier runs ingested three other reviews.
OldSink ==
  WriteRows(EmptySink, StartRow,
            <<[k |-> "k4", v |-> 1], [k |-> "k5", v |-> 1], [k |-> "k6", v |-> 1]>>)

\* REVIEW_HUB_SHEETS_BATCH (clamped to 1..200) and
\* REVIEW_HUB_SHEETS_MAX_SCAN_ROW (append_fixed: start_row + scan_max_rows - 1).
Configs == [batchSize : {1, 2}, maxScanRow : {StartRow + 1, MaxSheetRow}]

\* Every ingester is idle; the sheet is empty or filled by an earlier run.
InitSinkState(filled) ==
  /\ pc = [p \in Procs |-> "idle"]
  /\ flock = InitFlock
  /\ lk = InitLk
  /\ \/ sink = EmptySink /\ file = <<>>
     \/ sink = filled /\ file = [i \in 1..3 |-> filled[StartRow + i - 1].k]
  /\ am = <<>>
  /\ cfg \in Configs
  /\ now = 1
  /\ ing = InitIng
  /\ obs = <<>>
  /\ lockFile = NoProc

restSink == <<lk, am, cfg, obs, lockFile>>

Ended == {"done", "failed", "dead"}

\* What is left of an ended run once the next one starts: its input and its
\* counts (the process and its locals are gone).
Summary(f) ==
  [NoIng EXCEPT !.kind = f.kind, !.src = f.src, !.reviews = f.reviews,
                !.rows = f.rows, !.appended = f.appended,
                !.updated = f.updated, !.writes = f.writes]

\* The frames when process p starts a run.
Starting(p, f) ==
  [q \in Procs |->
     IF q = p THEN f
     ELSE IF pc[q] \in Ended THEN Summary(ing[q])
     ELSE ing[q]]

\* The pc after the scan and after each write: the updates first, then the
\* appends (ingest_ohou_json.py:213, 247).
\* An ingester started by a collector returns into the collector's
\* "with file_lock(DEFAULT_COLLECTOR_LOCK)" block.
EndPc(f) == IF f.src = "" THEN "done" ELSE "unlock"

NextPhase(f) ==
  IF f.toUpdate # <<>> THEN "upd"
  ELSE IF f.i < Len(f.toAppend) THEN "app"
  ELSE EndPc(f)

\* ---- Reconcile: ingest_ohou_json.main ------------------------------------

\* ingest_ohou_json.py:87-154  load the store, read the input file, build
\* rows_to_append (reviews: the reviews of the file that pass the look-back
\* filter, in input order); with no row the run only prints its summary
RecRun(p, reviews) ==
  /\ pc[p] = "idle"
  /\ ing[p].kind = "none"
  /\ ing' = Starting(p,
               [NoIng EXCEPT !.kind = "rec", !.reviews = reviews,
                             !.rows = reviews, !.seen = Load(file),
                             !.chunk = cfg.batchSize, !.sink0 = sink])
  /\ pc' = [pc EXCEPT ![p] = IF reviews = <<>> THEN "done" ELSE "scanA"]
  /\ UNCHANGED <<flock, file, sink, now, restSink>>

\* A run on any input file.
RecStart(p) == \E reviews \in SeqsUpTo(Reviews, MaxBatch) : RecRun(p, reviews)

\* ingest_ohou_json.py:182  colA = client.get(A3:A{max_scan_row})
RecScanA(p) ==
  /\ pc[p] = "scanA"
  /\ ing' = [ing EXCEPT ![p].colA = GetColumn("A", StartRow, cfg.maxScanRow)]
  /\ pc' = [pc EXCEPT ![p] = "scanN"]
  /\ UNCHANGED <<flock, file, sink, now, restSink>>

\* ingest_ohou_json.py:183-210, 214  colN = client.get(N3:N{max_scan_row});
\* build key_to_row and last; split the rows; sort the updates
RecScanN(p) ==
  /\ pc[p] = "scanN"
  /\ LET colN == GetColumn("N", StartRow, cfg.maxScanRow)
         k2r == KeyToRow(ing[p].colA, colN)
         last == LastDateRow(ing[p].colA)
         f == [ing[p] EXCEPT !.keyToRow = k2r, !.last = last,
                             !.toUpdate = SortByRow(ToUpdate(ing[p].rows, k2r)),
                             !.toAppend = ToAppend(ing[p].rows, k2r),
                             !.i = 0, !.nextRow = last + 1]
     IN /\ ing' = [ing EXCEPT ![p] = f]
        /\ pc' = [pc EXCEPT ![p] = NextPhase(f)]
  /\ UNCHANGED <<flock, file, sink, now, restSink>>

\* ingest_ohou_json.py:224, sheets_client.py:118  client.update of one run of
\* consecutive rows: take the sheets lock
UpdLock(p) ==
  /\ pc[p] = "upd"
  /\ FlockAcquire(p, SheetsLock)
  /\ pc' = [pc EXCEPT ![p] = "upd_w"]
  /\ UNCHANGED <<file, sink, now, ing, restSink>>

\* ingest_ohou_json.py:219-244, sheets_client.py:114-139  one batched write per
\* run: rows run_start..end take the run's payloads; the lock is dropped
UpdWrite(p) ==
  /\ pc[p] = "upd_w"
  /\ LET n == FirstRunLen(ing[p].toUpdate)
         start == ing[p].toUpdate[1].row
         recs == [j \in 1..n |-> ing[p].toUpdate[j].rec]
         f == [ing[p] EXCEPT !.toUpdate = SubSeq(@, n + 1, Len(@)),
                             !.updated = @ + n,
                             !.writes = Append(@, [op |-> "upd", start |-> start, n |-> n])]
     IN /\ sink' = WriteRows(sink, start, recs)
        /\ ing' = [ing EXCEPT ![p] = f]
        /\ pc' = [pc EXCEPT ![p] = NextPhase(f)]
  /\ FlockRelease(p, SheetsLock)
  /\ UNCHANGED <<file, now, restSink>>

\* ---- the append writes (Reconcile's chunks, append_fixed's single write) --

\* ingest_ohou_json.py:253 / sheets_client.py:192, 118  client.update of the
\* next chunk: take the sheets lock
AppLock(p) ==
  /\ pc[p] = "app"
  /\ FlockAcquire(p, SheetsLock)
  /\ pc' = [pc EXCEPT ![p] = "app_w"]
  /\ UNCHANGED <<file, sink, now, ing, restSink>>

\* The chunk a run writes next: to_append[i : i + batch_size].
Chunk(f) == SubSeq(f.toAppend, f.i + 1, Min2(f.i + f.chunk, Len(f.toAppend)))

\* ingest_ohou_json.py:249-254 / sheets_client.py:189-192  the chunk goes to
\* rows next_row..end_row; the lock is dropped
AppWrite(p) ==
  /\ pc[p] = "app_w"
  /\ LET c == Chunk(ing[p])
     IN /\ InGrid(ing[p].nextRow, Len(c))
        /\ sink' = WriteRows(sink, ing[p].nextRow, c)
        /\ ing' = [ing EXCEPT ![p].appended = @ + Len(c),
                              ![p].writes = Append(@, [op |-> "app",
                                                       start |-> ing[p].nextRow,
                                                       n |-> Len(c)])]
  /\ FlockRelease(p, SheetsLock)
  /\ pc' = [pc EXCEPT ![p] = "persist"]
  /\ UNCHANGED <<file, now, restSink>>

\* ingest_ohou_json.py:257-259 / ingest_coupang_json.py:122
\* dedup_state.add_many(the chunk's keys); next_row = end_row + 1
Persist(p) ==
  /\ pc[p] = "persist"
  /\ FlockFree(DedupLock)
  /\ LET c == Chunk(ing[p])
         f == [ing[p] EXCEPT !.i = @ + Len(c), !.nextRow = @ + Len(c)]
     IN /\ file' = AddMany(file, KeysOfSeq(c))
        /\ ing' = [ing EXCEPT ![p] = f]
        /\ pc' = [pc EXCEPT ![p] = NextPhase(f)]
  /\ UNCHANGED <<flock, sink, now, restSink>>

\* sheets_client.py:16, 134-139  the write command fails (non-zero exit, a
\* range outside the grid): update raises, the exception leaves every
\* "with file_lock" block of the run, the run ends
WriteFails(p) ==
  /\ pc[p] \in {"upd_w", "app_w"}
  /\ FlockReleaseAll(p)
  /\ pc' = [pc EXCEPT ![p] = "failed"]
  /\ UNCHANGED <<file, sink, now, ing, restSink>>

\* The run is killed (a crash, the caller's subprocess timeout). Inside
\* add_many a prefix of the new lines may already be in the file.
RunKilled(p) ==
  /\ pc[p] \in {"scanA", "scanN", "fscan", "upd", "upd_w", "app", "app_w", "persist",
               "wait", "load", "collect", "ingest", "unlock"}
  /\ FlockReleaseAll(p)
  /\ IF pc[p] = "persist"
     THEN \E pre \in Prefixes(NewItems(KeysOfSeq(Chunk(ing[p])), Load(file))) :
            file' = file \o pre
     ELSE file' = file
  /\ pc' = [pc EXCEPT ![p] = "dead"]
  /\ UNCHANGED <<sink, now, ing, restSink>>

\* ---- append-only ingestion: ingest_coupang_json.main ---------------------

\* ingest_coupang_json.py:40-109  seen = dedup_state.load(); the rows are the
\* reviews whose key is not in seen
FixedStart(p) ==
  /\ pc[p] = "idle"
  /\ ing[p].kind = "none"
  /\ \E reviews \in SeqsUpTo(Reviews, MaxBatch) :
       LET seen == Load(file)
           rows == FilterSeen(reviews, seen)
       IN /\ ing' = Starting(p,
                       [NoIng EXCEPT !.kind = "fixed", !.reviews = reviews,
                                     !.rows = rows, !.seen = seen,
                                     !.sink0 = sink])
          /\ pc' = [pc EXCEPT ![p] = IF rows = <<>> THEN "done" ELSE "fscan"]
  /\ UNCHANGED <<flock, file, sink, now, restSink>>

\* sheets_client.py:175-190  append_fixed: scan the sentinel column from
\* start_row over scan_max_rows rows; next_row = last + 1
FixedScan(p) ==
  /\ pc[p] = "fscan"
  /\ LET colA == GetColumn("A", StartRow, cfg.maxScanRow)
         last == LastDateRow(colA)
     IN ing' = [ing EXCEPT ![p].colA = colA, ![p].last = last,
                           ![p].toAppend = ing[p].rows, ![p].i = 0,
                           ![p].chunk = Len(ing[p].rows),
                           ![p].nextRow = last + 1]
  /\ pc' = [pc EXCEPT ![p] = "app"]
  /\ UNCHANGED <<flock, file, sink, now, restSink>>

\* ---- sequential Reconcile runs -------------------------------------------
\* p2's run starts after p1's run has ended.
InTurn(p) == p = "p1" \/ pc["p1"] \in Ended

NextReconcile ==
  \E p \in {"p1", "p2"} :
    \/ InTurn(p) /\ RecStart(p)
    \/ RecScanA(p)
    \/ RecScanN(p)
    \/ UpdLock(p)
    \/ UpdWrite(p)
    \/ AppLock(p)
    \/ AppWrite(p)
    \/ Persist(p)
    \/ WriteFails(p)
    \/ RunKilled(p)

SpecReconcile == InitSinkState(FilledSink) /\ [][NextReconcile]_vars

\* ---- sequential append-only runs -----------------------------------------
NextAppend ==
  \E p \in {"p1", "p2"} :
    \/ InTurn(p) /\ FixedStart(p)
    \/ FixedScan(p)
    \/ AppLock(p)
    \/ AppWrite(p)
    \/ Persist(p)
    \/ WriteFails(p)
    \/ RunKilled(p)

SpecAppend == InitSinkState(OldSink) /\ [][NextAppend]_vars

\* ---- a run and its retry on the same input file -------------------------
RetryFirst == \E reviews \in SeqsUpTo(Reviews, MaxBatch + 1) : RecRun("p1", reviews)

RetryAgain == pc["p1"] \in Ended /\ RecRun("p2", ing["p1"].reviews)

NextRetry ==
  \/ RetryFirst
  \/ RetryAgain
  \/ \E p \in {"p1", "p2"} :
       \/ RecScanA(p)
       \/ RecScanN(p)
       \/ UpdLock(p)
       \/ UpdWrite(p)
       \/ AppLock(p)
       \/ AppWrite(p)
       \/ Persist(p)
       \/ WriteFails(p)
       \/ RunKilled(p)

SpecRetry == InitSinkState(FilledSink) /\ [][NextRetry]_vars

\* No identity key is in column N of two rows.
NoDupKeys(sheet) ==
  \A r1, r2 \in DOMAIN sheet :
    (r1 # r2 /\ sheet[r1].k # "") => sheet[r1].k # sheet[r2].k

\* C3: across runs of the append-only ingestion, one of which may be killed
\* after its rows reached the sheet and before add_many stored their keys, no
\* identity key is appended to the sheet more than once.
C3_AtMostOnce == NoDupKeys(sink)

\* C4: Reconcile run on a batch and then again on the same batch appends
\* nothing the second time and leaves the sheet as the first run left it.
C4_Idempotent ==
  (pc["p1"] = "done" /\ pc["p2"] = "done") =>
     /\ ing["p2"].appended = 0
     /\ sink = ing["p2"].sink0

\* C5: from a sheet without a repeated key, no sequence of Reconcile runs
\* produces a repeated key in column N.
C5_NoDoubleAppend == NoDupKeys(sink)

\* The rows a failed run appended are a prefix of to_append, on the rows
\* after last; the other rows are as the updates left them.
PrefixWritten(f) ==
  /\ \A j \in 1..f.appended : sink[f.last + j] = RowOf(f.toAppend[j])
  /\ \A r \in SheetRowNums :
       (r <= f.last \/ r > f.last + f.appended) =>
          (sink[r] = f.sink0[r] \/ r \in Range(f.keyToRow))

\* The store holds, beyond what it held at the start, keys of written chunks.
StoreOnlyWritten(f) ==
  Load(file) \subseteq f.seen \cup Range(KeysOfSeq(SubSeq(f.toAppend, 1, f.appended)))

\* C8: a Reconcile run whose write fails after some chunks leaves a prefix of
\* to_append on consecutive rows and only written keys in the store, and the
\* retry on the same batch ends with no identity key in two rows.
C8_PartialAppend ==
  /\ (pc["p1"] = "failed" /\ ing["p1"].appended > 0 /\ pc["p2"] = "idle") =>
        /\ PrefixWritten(ing["p1"])
        /\ StoreOnlyWritten(ing["p1"])
  /\ (pc["p1"] = "failed" /\ ing["p1"].appended > 0 /\ pc["p2"] = "done") =>
        NoDupKeys(sink)

\* =========================================================================
\* SpecCollector: two collector runs, each for one source, and the writes of
\* their ingesters  (collect_coupang_browser.py, collect_ohou_browser.py,
\* collect_wadiz_qa.py)
\* =========================================================================
CollProcs == {"p1", "p2"}

\* The reviews a source's pages can show (the platform is part of the key).
SourceReviews(src) ==
  CASE src = "coupang" -> {[k |-> "c1", v |-> 1], [k |-> "c2", v |-> 1]}
    [] src = "ohou"    -> {[k |-> "o1", v |-> 1], [k |-> "o2", v |-> 1]}
    [] src = "wadiz"   -> {[k |-> "w1", v |-> 1], [k |-> "w2", v |-> 1]}

\* The sheet after earlier runs: a row of another source and a row of ohou.
CollSink ==
  WriteRows(EmptySink, StartRow, <<[k |-> "k4", v |-> 1], [k |-> "o1", v |-> 1]>>)

\* The store holds the keys of the sheet, or lacks the ohou row's key (the
\* ingester that wrote the row was stopped before its add_many). The tab is
\* shorter than the scan windows (50000 and 20000 rows by default).
InitCollector ==
  /\ pc = [p \in Procs |-> "idle"]
  /\ flock = InitFlock
  /\ lk = InitLk
  /\ sink = CollSink
  /\ file \in {<<"k4", "o1">>, <<"k4">>}
  /\ am = <<>>
  /\ cfg \in {c \in Configs : c.maxScanRow = MaxSheetRow}
  /\ now = 1
  /\ ing = InitIng
  /\ obs = <<>>
  /\ lockFile = NoProc

\* collect_coupang_browser.py:831-832, collect_ohou_browser.py:535
\* main: with file_lock(DEFAULT_COLLECTOR_LOCK)
CollLock(p) ==
  /\ pc[p] = "idle"
  /\ ing[p].kind = "none"
  /\ \E src \in {"coupang", "ohou"} :
       /\ FlockAcquire(p, CollectorLock(src))
       /\ ing' = [ing EXCEPT ![p] = [NoIng EXCEPT !.kind = "coll", !.src = src]]
  /\ pc' = [pc EXCEPT ![p] = "load"]
  /\ UNCHANGED <<file, sink, now, restSink>>

\* collect_coupang_browser.py:681-682, collect_ohou_browser.py:439-440
\* collect_one_brand: seen_keys = dedup_state.load()
CollLoad(p) ==
  /\ pc[p] = "load"
  /\ ing' = [ing EXCEPT ![p].seen = Load(file)]
  /\ pc' = [pc EXCEPT ![p] = "collect"]
  /\ UNCHANGED <<flock, file, sink, now, restSink>>

\* collect_coupang_browser.py:613-629, 760-771, collect_ohou_browser.py:390-394
\* the pages are read; the never-seen reviews go to the output file
CollCollect(p) ==
  /\ pc[p] = "collect"
  /\ ing[p].src \in {"coupang", "ohou"}
  /\ \E reviews \in SeqsUpTo(SourceReviews(ing[p].src), MaxBatch) :
       ing' = [ing EXCEPT ![p].reviews = FilterSeen(reviews, ing[p].seen)]
  /\ pc' = [pc EXCEPT ![p] = "ingest"]
  /\ UNCHANGED <<flock, file, sink, now, restSink>>

\* collect_coupang_browser.py:773-774  _run(review_hub.ingest_coupang_json)
\* collect_ohou_browser.py:474-475     _run(review_hub.ingest_ohou_json)
\* the ingester starts on the output file (ingest_coupang_json.py:45-109,
\* ingest_ohou_json.py:87-154)
CollIngest(p) ==
  /\ pc[p] = "ingest"
  /\ LET f == ing[p]
         seen == Load(file)
         g == IF f.src = "coupang"
              THEN [f EXCEPT !.kind = "fixed", !.seen = seen,
                             !.rows = FilterSeen(f.reviews, seen), !.sink0 = sink]
              ELSE [f EXCEPT !.kind = "rec", !.seen = seen, !.rows = f.reviews,
                             !.chunk = cfg.batchSize, !.sink0 = sink]
     IN /\ ing' = [ing EXCEPT ![p] = g]
        /\ pc' = [pc EXCEPT ![p] = IF g.rows = <<>> THEN "unlock"
                                   ELSE IF g.kind = "fixed" THEN "fscan"
                                   ELSE "scanA"]
  /\ UNCHANGED <<flock, file, sink, now, restSink>>

\* collect_wadiz_qa.py:733-735  main: with file_lock(dedup_path + ".lock"):
\* seen_keys = TextSet(dedup_path).load()
WadizLoad(p) ==
  /\ pc[p] = "idle"
  /\ ing[p].kind = "none"
  /\ FlockFree(DedupLock)
  /\ ing' = [ing EXCEPT ![p] = [NoIng EXCEPT !.kind = "coll", !.src = "wadiz",
                                             !.seen = Load(file)]]
  /\ pc' = [pc EXCEPT ![p] = "wait"]
  /\ UNCHANGED <<flock, file, sink, now, restSink>>

\* collect_wadiz_qa.py:744  main: with file_lock(DEFAULT_COLLECTOR_LOCK)
WadizLock(p) ==
  /\ pc[p] = "wait"
  /\ FlockAcquire(p, CollectorLock("wadiz"))
  /\ pc' = [pc EXCEPT ![p] = "collect"]
  /\ UNCHANGED <<file, sink, now, ing, restSink>>

\* collect_wadiz_qa.py:745-746, 546-572  collect_for_project_no: out_rows are
\* the page's reviews whose key is not in seen_keys
WadizCollect(p) ==
  /\ pc[p] = "collect"
  /\ ing[p].src = "wadiz"
  /\ \E reviews \in SeqsUpTo(SourceReviews("wadiz"), MaxBatch) :
       LET rows == FilterSeen(reviews, ing[p].seen)
       IN /\ ing' = [ing EXCEPT ![p].kind = "fixed", ![p].reviews = reviews,
                                ![p].rows = rows, ![p].sink0 = sink]
          /\ pc' = [pc EXCEPT ![p] = IF rows = <<>> THEN "unlock" ELSE "fscan"]
  /\ UNCHANGED <<flock, file, sink, now, restSink>>

\* lock.py:20-30  the collector leaves its "with file_lock" block
CollUnlock(p) ==
  /\ pc[p] = "unlock"
  /\ FlockRelease(p, CollectorLock(ing[p].src))
  /\ pc' = [pc EXCEPT ![p] = "done"]
  /\ UNCHANGED <<file, sink, now, ing, restSink>>

NextCollector ==
  \E p \in CollProcs :
    \/ CollLock(p)
    \/ CollLoad(p)
    \/ CollCollect(p)
    \/ CollIngest(p)
    \/ WadizLoad(p)
    \/ WadizLock(p)
    \/ WadizCollect(p)
    \/ FixedScan(p)
    \/ RecScanA(p)
    \/ RecScanN(p)
    \/ UpdLock(p)
    \/ UpdWrite(p)
    \/ AppLock(p)
    \/ AppWrite(p)
    \/ Persist(p)
    \/ WriteFails(p)
    \/ CollUnlock(p)

SpecCollector == InitCollector /\ [][NextCollector]_vars

\* The rows a run's append writes went to.
AppRows(f) ==
  UNION { f.writes[i].start .. (f.writes[i].start + f.writes[i].n - 1) :
            i \in {j \in DOMAIN f.writes : f.writes[j].op = "app"} }

\* The keys of the rows a run appended.
AppendedKeys(f) == Range(KeysOfSeq(SubSeq(f.toAppend, 1, f.appended)))

\* C6: two writers running for different sources against the tab never
\* append to the same row: the row ranges of their append writes are disjoint.
C6_DisjointAppends ==
  \A p, q \in CollProcs :
    (p # q /\ ing[p].src # "" /\ ing[q].src # "" /\ ing[p].src # ing[q].src) =>
       AppRows(ing[p]) \cap AppRows(ing[q]) = {}

\* C7: a reconciliation holds the sheets lock from before its scan of the
\* sheet columns until after its last write.
C7_LockHeldThroughout ==
  \A p \in CollProcs :
    (ing[p].kind = "rec" /\ pc[p] \in {"scanA", "scanN", "upd", "upd_w", "app", "app_w"}) =>
       flock[SheetsLock] = p

\* C9: of two runs of the same source, neither appends a review (an identity
\* key) that the other one appended.
C9_SameSourceSerialize ==
  \A p, q \in CollProcs :
    (p # q /\ ing[p].src # "" /\ ing[p].src = ing[q].src) =>
       AppendedKeys(ing[p]) \cap AppendedKeys(ing[q]) = {}

\* =========================================================================
\* SpecRunLocks: the run locks of the orchestrators: file_lock (the collector
\* and loop locks) and the pipeline.lock file of run_pipeline.main
\* =========================================================================
RunProcs == {"p1", "p2"}

\* run_pipeline.py:32-41  os.open(lock_path, O_CREAT | O_EXCL | O_WRONLY) and
\* the pid is written; if the file exists the run prints "skipped" and returns
PipeStart(p) ==
  /\ pc[p] = "idle"
  /\ lk[p].runs < MaxRuns
  /\ lk' = [lk EXCEPT ![p].runs = @ + 1, ![p].exc = FALSE]
  /\ IF lockFile = NoProc
     THEN lockFile' = p /\ pc' = [pc EXCEPT ![p] = "tabs"]
     ELSE lockFile' = lockFile /\ pc' = [pc EXCEPT ![p] = "skipped"]
  /\ UNCHANGED <<flock, file, am, sink, cfg, now, ing, obs>>

\* run_pipeline.py:43-50  ensure_tabs_exist(...) returns
PipeTabs(p) ==
  /\ pc[p] = "tabs"
  /\ pc' = [pc EXCEPT ![p] = "discovery"]
  /\ UNCHANGED <<flock, lk, restLock>>

\* run_pipeline.py:43-50  ensure_tabs_exist(...) raises: the call is outside
\* the try block, main ends with the exception
PipeTabsFail(p) ==
  /\ pc[p] = "tabs"
  /\ lk' = [lk EXCEPT ![p].exc = TRUE]
  /\ pc' = [pc EXCEPT ![p] = "raised"]
  /\ UNCHANGED <<flock, restLock>>

\* run_pipeline.py:52-71  discovery, reviews, the local artifact
PipeStep(p) ==
  /\ pc[p] \in {"discovery", "reviews", "log"}
  /\ pc' = [pc EXCEPT ![p] = CASE pc[p] = "discovery" -> "reviews"
                                [] pc[p] = "reviews" -> "log"
                                [] pc[p] = "log" -> "finally"]
  /\ UNCHANGED <<flock, lk, restLock>>

\* run_pipeline.py:52-72  a step of the try block raises
PipeRaise(p) ==
  /\ pc[p] \in {"discovery", "reviews", "log"}
  /\ lk' = [lk EXCEPT ![p].exc = TRUE]
  /\ pc' = [pc EXCEPT ![p] = "finally"]
  /\ UNCHANGED <<flock, restLock>>

\* run_pipeline.py:72-76  finally: os.remove(lock_path)
PipeFinally(p) ==
  /\ pc[p] = "finally"
  /\ lockFile' = NoProc
  /\ pc' = [pc EXCEPT ![p] = IF lk[p].exc THEN "raised" ELSE "returned"]
  /\ UNCHANGED <<flock, lk, file, am, sink, cfg, now, ing, obs>>

\* The process dies: nothing removes the lock file.
PipeCrash(p) ==
  /\ pc[p] \in {"tabs", "discovery", "reviews", "log", "finally"}
  /\ pc' = [pc EXCEPT ![p] = "dead"]
  /\ UNCHANGED <<flock, lk, restLock>>

\* A later invocation after a skipped run.
PipeAgain(p) ==
  /\ pc[p] = "skipped"
  /\ lk[p].runs < MaxRuns
  /\ pc' = [pc EXCEPT ![p] = "idle"]
  /\ UNCHANGED <<flock, lk, restLock>>

NextRunLocks ==
  \E p \in RunProcs :
    \/ LockOpen(p)
    \/ LockFlock(p)
    \/ LockFlockFails(p)
    \/ BodyReturn(p)
    \/ BodyRaise(p)
    \/ LockUnlock(p)
    \/ LockClose(p)
    \/ LockCrash(p)
    \/ LockAgain(p)
    \/ PipeStart(p)
    \/ PipeTabs(p)
    \/ PipeTabsFail(p)
    \/ PipeStep(p)
    \/ PipeRaise(p)
    \/ PipeFinally(p)
    \/ PipeCrash(p)
    \/ PipeAgain(p)

SpecRunLocks == InitLock /\ [][NextRunLocks]_vars

\* The control points at which a run holds its lock.
HoldsFlock == {"body", "unlock"}
HoldsLockFile == {"tabs", "discovery", "reviews", "log", "finally"}

\* C10: a run lock is held only by a run in progress: every flock has a
\* holder inside its file_lock block and pipeline.lock exists only while the
\* run that created it is between its creation and its removal, so no lock is
\* left behind by a run that returned, raised or died.
C10_RunLocksReleased ==
  /\ \A path \in LockPaths :
       flock[path] # NoProc => pc[flock[path]] \in HoldsFlock
  /\ lockFile # NoProc => pc[lockFile] \in HoldsLockFile

\* =========================================================================
\* SpecDiscover: the discovery scan of one listing
\*   collect_coupang_browser.py  discover_product_urls_for_brandshop
\*   collect_ohou_browser.py     discover_goods_ids_openclaw
\*   collect_wadiz_qa.py         load_all_items_by_scrolling
\* =========================================================================
MaxShown == 2         \* links one extraction can return

\* The links a listing page can show: a1 and a2 are two surface URLs of one
\* product (different itemId / vendorItemId).
Surface == {"a1", "a2", "b1", "c1"}

\* collect_coupang_browser.py:235-247 normalize_coupang_product_url,
\* collect_ohou_browser.py:254-256 the goods id of a link: the canonical locator
Canon(u) ==
  CASE u = "a1" -> "a"
    [] u = "a2" -> "a"
    [] u = "b1" -> "b"
    [] u = "c1" -> "c"

\* The lists of different links of length at most n.
DistinctSeqs(S, n) ==
  {q \in SeqsUpTo(S, n) : \A i, j \in DOMAIN q : i # j => q[i] # q[j]}

\* collect_coupang_browser.py:344-351 without the s2 test: normalize only.
NormalizeOnly(cur, out, cap) == [i \in DOMAIN cur |-> Canon(cur[i])]

\* collect_coupang_browser.py:344-351, collect_ohou_browser.py:257-267
\* normalize, drop repeats, keep the order; stop once cap entries are out
\* (cap < 0: no cap)
RECURSIVE DedupCanon(_, _, _)
DedupCanon(cur, out, cap) ==
  IF cur = <<>> THEN out
  ELSE LET nu == Canon(Head(cur))
       IN IF nu \in Range(out) THEN DedupCanon(Tail(cur), out, cap)
          ELSE IF cap >= 0 /\ Len(out) + 1 >= cap THEN Append(out, nu)
          ELSE DedupCanon(Tail(cur), Append(out, nu), cap)

\* What one extraction yields from the links cur of the page.
Extracted(c, cur) ==
  CASE c.kind = "coupang" -> DedupCanon(cur, <<>>, -1)
    [] c.kind = "ohou"    -> DedupCanon(cur, <<>>, c.maxItems)
    [] c.kind = "wadiz"   -> cur

\* A source whose list grows by one item per scroll for three scrolls and
\* then stops growing: what it shows after n scrolls.
GrowThree(n) == SubSeq(<<"a1", "b1", "c1">>, 1, Min2(n, 3))

\* What a page can show at an extraction: anything, or GrowThree of the
\* scrolls done on the page.
Shows(c, scrollsOnPage) ==
  IF c.source = "grow3" THEN {GrowThree(scrollsOnPage)}
  ELSE DistinctSeqs(Surface, MaxShown)

\* collect_coupang_browser.py:352 with >= for >.
GrowsOrEqual(out, best) == Len(out) >= Len(best)

\* collect_coupang_browser.py:352, collect_ohou_browser.py:273,
\* collect_wadiz_qa.py:303  the extraction is strictly larger than the best
Grows(out, best) == Len(out) > Len(best)

\* range(max(1, max_scrolls)) that never runs out.
ScanGoesOn(c, iter) == FALSE

\* collect_coupang_browser.py:333, collect_ohou_browser.py:271,
\* collect_wadiz_qa.py:300  for _ in range(max(1, max_scrolls)): the loop has
\* run iter times and is over
ScanOver(c, iter) == iter >= Max2(1, c.maxScrolls)

\* collect_coupang_browser.py:362-371  merge best into all_urls: the locators
\* not yet seen, in order, stopping when all_urls has max_products entries
RECURSIVE Merge(_, _, _)
Merge(all, best, cap) ==
  IF best = <<>> THEN all
  ELSE IF Head(best) \in Range(all) THEN Merge(all, Tail(best), cap)
  ELSE IF Len(all) + 1 >= cap THEN Append(all, Head(best))
  ELSE Merge(Append(all, Head(best)), Tail(best), cap)

\* collect_coupang_browser.py:327-329 handing over the list gathered so far.
RaisedWithList(all) == all

\* collect_coupang_browser.py:327-329  raise RuntimeError(blocked): the call
\* returns nothing
Raised(all) == <<>>

\* CLI arguments of the collectors (collect_coupang_browser.py:215-219,
\* collect_ohou_browser.py:116-119, collect_wadiz_qa.py:368-369); the ohou and
\* wadiz scans have one page.
DiscConfigs ==
  {c \in [kind : {"coupang", "ohou", "wadiz"}, source : {"any", "grow3"},
          maxPages : {1, 3}, maxScrolls : {0, 2, 6},
          stableIters : {1, 2}, maxItems : {0, 2, 4}] :
     c.kind # "coupang" => c.maxPages = 1}

NoDisc ==
  [page |-> 0, iter |-> 0, scrolls |-> 0, best |-> <<>>, stable |-> 0,
   all |-> <<>>, new |-> 0]

InitDiscover ==
  /\ pc = [p \in Procs |-> IF p = "p1" THEN "d_start" ELSE "idle"]
  /\ flock = InitFlock
  /\ lk = InitLk
  /\ file = <<>>
  /\ am = <<>>
  /\ sink = <<>>
  /\ cfg \in DiscConfigs
  /\ now = 1
  /\ ing = NoDisc
  /\ obs = [pages |-> 0, scrolls |-> 0, extr |-> 0, stopAt |-> 0,
            result |-> <<>>, raised |-> FALSE]
  /\ lockFile = NoProc

restDisc == <<flock, lk, file, am, sink, cfg, now, lockFile>>

\* collect_coupang_browser.py:317-322  the first page of the loop, if any
\* collect_ohou_browser.py:238-242, 269-270  the brand page is opened
DiscStart ==
  /\ pc["p1"] = "d_start"
  /\ IF cfg.kind = "coupang"
     THEN /\ pc' = [pc EXCEPT !["p1"] = IF cfg.maxPages >= 1 THEN "d_nav" ELSE "d_done"]
          /\ ing' = [ing EXCEPT !.page = 1]
          /\ obs' = obs
     ELSE /\ pc' = [pc EXCEPT !["p1"] = "d_extract"]
          /\ ing' = [ing EXCEPT !.page = 1]
          /\ obs' = [obs EXCEPT !.pages = 1]
  /\ UNCHANGED restDisc

\* collect_coupang_browser.py:323-332  navigate to the page; a blocked page
\* raises; else best = [], stable = 0
DiscNavigate ==
  /\ pc["p1"] = "d_nav"
  /\ \E blocked \in BOOLEAN :
       IF blocked
       THEN /\ obs' = [obs EXCEPT !.pages = @ + 1, !.raised = TRUE,
                                  !.result = Raised(ing.all)]
            /\ pc' = [pc EXCEPT !["p1"] = "d_raised"]
            /\ ing' = ing
       ELSE /\ obs' = [obs EXCEPT !.pages = @ + 1]
            /\ ing' = [ing EXCEPT !.iter = 0, !.scrolls = 0, !.best = <<>>,
                                  !.stable = 0, !.new = 0]
            /\ pc' = [pc EXCEPT !["p1"] = "d_extract"]
  /\ UNCHANGED restDisc

\* The scan is over: coupang merges the page, ohou / wadiz return best.
AfterScan(f) ==
  IF cfg.kind = "coupang" THEN "d_merge" ELSE "d_done"

\* collect_coupang_browser.py:334-358, collect_ohou_browser.py:272-281,
\* collect_wadiz_qa.py:301-312  one extraction: best / stable are updated and
\* the loop breaks on the item cap (ohou, wadiz) or on stable
DiscExtract ==
  /\ pc["p1"] = "d_extract"
  /\ \E cur \in Shows(cfg, ing.scrolls) :
       LET out == Extracted(cfg, cur)
           g == Grows(out, ing.best)
           f == [ing EXCEPT !.iter = @ + 1,
                            !.best = IF g THEN out ELSE @,
                            !.stable = IF g THEN 0 ELSE @ + 1]
           capped == cfg.kind # "coupang" /\ Len(f.best) >= cfg.maxItems
           stop == capped \/ f.stable >= cfg.stableIters
       IN /\ ing' = f
          /\ obs' = [obs EXCEPT !.extr = @ + 1,
                                !.result = IF stop /\ cfg.kind # "coupang"
                                           THEN f.best ELSE @]
          /\ pc' = [pc EXCEPT !["p1"] = IF stop THEN AfterScan(f) ELSE "d_scroll"]
  /\ UNCHANGED restDisc

\* collect_coupang_browser.py:359-360, collect_ohou_browser.py:283-287,
\* collect_wadiz_qa.py:314-315  scroll to the bottom; next iteration, if any
DiscScroll ==
  /\ pc["p1"] = "d_scroll"
  /\ ing' = [ing EXCEPT !.scrolls = @ + 1]
  /\ obs' = [obs EXCEPT !.scrolls = @ + 1,
                        !.result = IF ScanOver(cfg, ing.iter) /\ cfg.kind # "coupang"
                                   THEN ing.best ELSE @]
  /\ pc' = [pc EXCEPT !["p1"] = IF ScanOver(cfg, ing.iter) THEN AfterScan(ing)
                                ELSE "d_extract"]
  /\ UNCHANGED restDisc

\* collect_coupang_browser.py:377 without the page test.
NothingNewAnyPage(page, new) == new = 0

\* collect_coupang_browser.py:376-378  if page > 1 and new_this_page == 0: break
NothingNew(page, new) == page > 1 /\ new = 0

\* collect_coupang_browser.py:362-380  merge the page's best list; stop on
\* max_products, on a page beyond the first with nothing new, or after the last
\* page; else the next page
DiscMerge ==
  /\ pc["p1"] = "d_merge"
  /\ LET all == Merge(ing.all, ing.best, cfg.maxItems)
         new == Len(all) - Len(ing.all)
         stop == \/ Len(all) >= cfg.maxItems
                 \/ NothingNew(ing.page, new)
                 \/ ing.page >= cfg.maxPages
     IN /\ ing' = [ing EXCEPT !.all = all, !.new = new,
                              !.page = IF stop THEN @ ELSE @ + 1]
        /\ obs' = [obs EXCEPT !.result = IF stop THEN all ELSE @,
                              !.stopAt = IF stop THEN ing.page ELSE @]
        /\ pc' = [pc EXCEPT !["p1"] = IF stop THEN "d_done" ELSE "d_nav"]
  /\ UNCHANGED restDisc

NextDiscover ==
  \/ DiscStart
  \/ DiscNavigate
  \/ DiscExtract
  \/ DiscScroll
  \/ DiscMerge

SpecDiscover == InitDiscover /\ [][NextDiscover]_vars

\* The listing of the example: one page whose list grows by one item per
\* scroll for three scrolls, threshold 2, scroll budget and item cap not
\* reached.
GrowThreeRun ==
  /\ cfg.source = "grow3"
  /\ cfg.stableIters = 2
  /\ cfg.maxScrolls >= 6
  /\ cfg.maxItems > 3
  /\ cfg.maxPages = 1

NoRepeatIn(q) == \A i, j \in DOMAIN q : i # j => q[i] # q[j]

\* C15: an extraction either is strictly larger than the best list, which it
\* then replaces with the counter reset to 0, or leaves the best list and
\* increments the counter; the scan goes on to scroll only while the counter
\* is below the threshold; and on the GrowThree listing with threshold 2
\* discovery ends after exactly 5 scroll actions with the 3 distinct items.
C15_StabilityScan ==
  /\ [][pc["p1"] = "d_extract" =>
          \/ ing'.stable = 0 /\ Len(ing'.best) > Len(ing.best)
          \/ ing'.stable = ing.stable + 1 /\ ing'.best = ing.best]_vars
  /\ [](pc["p1"] = "d_scroll" => ing.stable < cfg.stableIters)
  /\ []((GrowThreeRun /\ pc["p1"] = "d_done") =>
          /\ obs.scrolls = 5
          /\ Len(obs.result) = 3 /\ NoRepeatIn(obs.result))

\* C15 witness: the coupang scan of the GrowThree listing has ended after its
\* sixth extraction.
C15_Witness ==
  /\ GrowThreeRun
  /\ cfg.kind = "coupang"
  /\ pc["p1"] = "d_done"
  /\ obs.extr = 6
  /\ obs.result = <<"a", "b", "c">>

\* The scheduler keeps running the discovery process.
SpecDiscoverFair == SpecDiscover /\ WF_vars(NextDiscover)

\* C16: whatever the pages show, discovery loads at most maxPages pages and
\* makes at most max(1, maxScrolls) extractions per page, and it ends (it
\* returns or raises).
C16_DiscoverTerminates ==
  /\ [](obs.pages <= cfg.maxPages /\ ing.iter <= Max2(1, cfg.maxScrolls))
  /\ <>(pc["p1"] \in {"d_done", "d_raised"})

\* C16 witness: on the last page a list that grew at every scroll used up the
\* scroll budget without ever being stable.
C16_Witness ==
  /\ cfg.source = "any"
  /\ cfg.maxPages = 3 /\ obs.pages = 3
  /\ cfg.maxScrolls = 2 /\ ing.iter = 2
  /\ ing.stable = 0 /\ Len(ing.best) = 2
  /\ pc["p1"] = "d_scroll"

\* The position of the first link of cur whose canonical locator is x.
FirstAt(cur, x) == MinOf({i \in DOMAIN cur : Canon(cur[i]) = x})

\* out lists locators of cur, each once, in the order of their first links.
FirstSeenOrder(out, cur) ==
  /\ NoRepeatIn(out)
  /\ Range(out) \subseteq {Canon(cur[i]) : i \in DOMAIN cur}
  /\ \A i, j \in DOMAIN out : i < j => FirstAt(cur, out[i]) < FirstAt(cur, out[j])

IsPrefix(a, b) == Len(a) <= Len(b) /\ SubSeq(b, 1, Len(a)) = a

\* The list a coupang or ohou discovery returned.
Discovered == pc["p1"] = "d_done" /\ cfg.kind \in {"coupang", "ohou"}

C18_OuterLoopStops ==
  /\ [][(pc["p1"] = "d_merge" /\ cfg.kind = "coupang") =>
          LET new == Len(ing'.all) - Len(ing.all)
          IN /\ (ing.page > 1 /\ new = 0) => pc'["p1"] = "d_done"
             /\ (Len(ing'.all) >= cfg.maxItems) => pc'["p1"] = "d_done"
             /\ (ing.page = 1 /\ new = 0 /\ cfg.maxPages > 1
                   /\ Len(ing'.all) < cfg.maxItems) => pc'["p1"] = "d_nav"]_vars
  /\ []((pc["p1"] = "d_done" /\ cfg.kind = "coupang") => obs.pages = obs.stopAt)

\* C18 witness: the first page added nothing, the second was loaded and added
\* nothing either; discovery stopped there although a third page was allowed.
C18_Witness ==
  /\ cfg.kind = "coupang"
  /\ cfg.maxPages = 3 /\ cfg.maxItems > 0
  /\ pc["p1"] = "d_done"
  /\ obs.pages = 2 /\ obs.stopAt = 2
  /\ obs.result = <<>>

\* C19: when a page is found blocked, discovery raises: the caller gets no
\* locator (those of earlier pages included) and the blocked page is the last
\* page loaded.
C19_BlockedRaises ==
  (pc["p1"] = "d_raised") =>
     /\ obs.raised
     /\ obs.result = <<>>
     /\ obs.pages = ing.page

\* C19 witness: the second page is blocked after the first page gave locators.
C19_Witness ==
  /\ pc["p1"] = "d_raised"
  /\ ing.page = 2
  /\ ing.all # <<>>
  /\ cfg.maxPages = 3

\* =========================================================================
\* SpecCollectItem: the review pages of one item
\*   collect_coupang_browser.py  collect_reviews_for_product
\*   collect_ohou_browser.py     fetch_reviews_for_goods_ids_openclaw
\* =========================================================================
MaxListing == 3       \* pages of the item's review listing

\* The identity keys of the reviews a listing can hold.
RevKeys == {"r1", "r2", "r3"}

\* A listing: its pages, each a list of different reviews (at most per_page).
Listings == SeqsUpTo(DistinctSeqs(RevKeys, 2), MaxListing)

\* max_pages_per_product / max_pages_per_goods, max_reviews_per_product /
\* max_reviews_per_goods, per_page; seen0 is the seen-set the caller passes.
ItemConfigs ==
  [kind : {"coupang", "ohou"}, listing : Listings, maxPages : {2, 4},
   maxReviews : {1, 5}, perPage : {2}, seen0 : {{}, {"r1"}}]

\* collect_coupang_browser.py:616-653  the reviews of the page whose key is
\* not in seen, in order, until out has cap entries
RECURSIVE NetNew(_, _, _)
NetNew(reviews, seen, room) ==
  IF reviews = <<>> \/ room <= 0 THEN <<>>
  ELSE IF Head(reviews) \in seen THEN NetNew(Tail(reviews), seen, room)
  ELSE <<Head(reviews)>> \o NetNew(Tail(reviews), seen \cup {Head(reviews)}, room - 1)

\* The room left in out: coupang breaks out of the page at
\* max_reviews_per_product (line 652); ohou takes the whole page.
RoomLeft(c, out, reviews) ==
  IF c.kind = "coupang" THEN c.maxReviews - Len(out) ELSE Len(reviews)

\* The page never ends the pagination.
ZeroNewGoesOn(n) == FALSE

\* collect_coupang_browser.py:655, collect_ohou_browser.py:423
\* if new_in_page == 0: break
ZeroNew(n) == n = 0

NoItem == [page |-> 0, out |-> <<>>, seen |-> {}]

InitCollectItem ==
  /\ pc = [p \in Procs |-> IF p = "p1" THEN "i_start" ELSE "idle"]
  /\ flock = InitFlock
  /\ lk = InitLk
  /\ file = <<>>
  /\ am = <<>>
  /\ sink = <<>>
  /\ cfg \in ItemConfigs
  /\ now = 1
  /\ ing = NoItem
  /\ obs = [requested |-> 0, extracted |-> 0, zeroAt |-> 0]
  /\ lockFile = NoProc

\* collect_coupang_browser.py:567-594  navigate to the product (its first
\* review page); collect_ohou_browser.py:332-336  page = 1
ItemStart ==
  /\ pc["p1"] = "i_start"
  /\ ing' = [NoItem EXCEPT !.page = 1, !.seen = cfg.seen0]
  /\ obs' = [obs EXCEPT !.requested = IF cfg.kind = "coupang" THEN 1 ELSE 0]
  /\ pc' = [pc EXCEPT !["p1"] = "i_top"]
  /\ UNCHANGED restDisc

\* collect_coupang_browser.py:596-599, collect_ohou_browser.py:338-341
\* the caps are reached: the loop ends
ItemCapped ==
  /\ pc["p1"] = "i_top"
  /\ \/ ing.page > cfg.maxPages
     \/ Len(ing.out) >= cfg.maxReviews
  /\ pc' = [pc EXCEPT !["p1"] = "i_done"]
  /\ UNCHANGED <<ing, obs, restDisc>>

\* The reviews of page n of the listing (none beyond its last page).
PageOf(n) == IF n <= Len(cfg.listing) THEN cfg.listing[n] ELSE <<>>

\* collect_coupang_browser.py:611-661  extract the visible page, keep the
\* net-new reviews, stop on a page without any
\* collect_ohou_browser.py:343-425  fetch page `page`, keep the net-new
\* reviews; stop on an empty or short page or on a page without net-new ones
ItemExtract ==
  /\ pc["p1"] = "i_top"
  /\ ing.page <= cfg.maxPages
  /\ Len(ing.out) < cfg.maxReviews
  /\ LET reviews == PageOf(ing.page)
         new == NetNew(reviews, ing.seen, RoomLeft(cfg, ing.out, reviews))
         zero == ZeroNew(Len(new))
         stop == IF cfg.kind = "coupang" THEN zero
                 ELSE reviews = <<>> \/ Len(reviews) < cfg.perPage \/ zero
     IN /\ ing' = [ing EXCEPT !.out = @ \o new, !.seen = @ \cup Range(new),
                              !.page = IF cfg.kind = "ohou" /\ ~stop THEN @ + 1 ELSE @]
        /\ obs' = [obs EXCEPT !.extracted = @ + 1,
                              !.requested = IF cfg.kind = "ohou" THEN ing.page ELSE @,
                              !.zeroAt = IF @ = 0 /\ Len(new) = 0 THEN ing.page ELSE @]
        /\ pc' = [pc EXCEPT !["p1"] = IF stop THEN "i_done"
                                      ELSE IF cfg.kind = "coupang" THEN "i_click"
                                      ELSE "i_top"]
  /\ UNCHANGED restDisc

\* collect_coupang_browser.py:663-667  page += 1; click the pager; no such
\* page: break
ItemClick ==
  /\ pc["p1"] = "i_click"
  /\ ing' = [ing EXCEPT !.page = @ + 1]
  /\ obs' = [obs EXCEPT !.requested = ing.page + 1]
  /\ pc' = [pc EXCEPT !["p1"] = IF ing.page + 1 <= Len(cfg.listing) THEN "i_top"
                                ELSE "i_done"]
  /\ UNCHANGED restDisc

NextCollectItem ==
  \/ ItemStart
  \/ ItemCapped
  \/ ItemExtract
  \/ ItemClick

SpecCollectItem == InitCollectItem /\ [][NextCollectItem]_vars

\* A 3-page listing whose first two pages are full and bring new reviews and
\* whose third page holds only reviews of the first; nothing seen before, the
\* caps out of reach.
ThreePageListing ==
  /\ Len(cfg.listing) = 3
  /\ cfg.seen0 = {}
  /\ cfg.maxPages >= 4 /\ cfg.maxReviews >= 5
  /\ Len(cfg.listing[1]) = cfg.perPage /\ Len(cfg.listing[2]) = cfg.perPage
  /\ Range(cfg.listing[2]) \ Range(cfg.listing[1]) # {}
  /\ cfg.listing[3] # <<>>
  /\ Range(cfg.listing[3]) \subseteq Range(cfg.listing[1])

\* C20: the first page that yields no net-new review (empty or not) ends the
\* pagination at once: it is the last page extracted and the last page
\* requested. On the 3-page listing exactly 3 pages are extracted and page 4
\* is never requested.
C20_StopsAtZeroNew ==
  /\ (obs.zeroAt > 0) =>
        /\ pc["p1"] = "i_done"
        /\ obs.extracted = obs.zeroAt
        /\ obs.requested = obs.zeroAt
  /\ (ThreePageListing /\ pc["p1"] = "i_done") =>
        /\ obs.extracted = 3
        /\ obs.requested = 3

\* C20 witness: the coupang collection of the 3-page listing has stopped on
\* page 3, a non-empty page.
C20_Witness ==
  /\ ThreePageListing
  /\ cfg.kind = "coupang"
  /\ pc["p1"] = "i_done"
  /\ obs.zeroAt = 3
  /\ Len(ing.out) = 3

\* C21: for one item the collector extracts at most maxPages pages and
\* returns at most maxReviewsPerItem records (coupang and ohou).
C21_ItemCaps ==
  /\ obs.extracted <= cfg.maxPages
  /\ Len(ing.out) <= cfg.maxReviews

\* ------------------------------------------------------------------------
\* SpecBrand: one run of a collector's main over its sources (brands of the
\* coupang and ohou collectors, projects of the wadiz collector) and, inside a
\* source, over its items (products, goods, pages). Process "p1" runs main.
\*   cfg  = the command line;  ing = the locals of the source in hand;
\*   obs  = what has happened so far;  file = the identity store.
MaxBrands == 2        \* sources of one run
MaxProducts == 2      \* items discovered for one source

Brands == 1..MaxBrands

BrandConfigs ==
  {c \in [kind : {"coupang", "ohou", "wadiz"}, dryRun : BOOLEAN,
          logErrors : BOOLEAN] : c.kind = "ohou" => ~c.logErrors}

\* What visiting a source listing or an item can end in.
Outcomes == {"ok", "blocked", "timeout"}

\* collect_coupang_browser.py:691-698 (client is set iff log_errors_to_sheet),
\* collect_wadiz_qa.py:737-741 (client is None in a dry-run); the ohou
\* collector has no error-log client.
HasClient(c) ==
  IF c.kind = "coupang" THEN c.logErrors
  ELSE IF c.kind = "wadiz" THEN ~c.dryRun
  ELSE FALSE

DiscoverSwallowed(outcome) == FALSE

\* collect_coupang_browser.py:702-718 (except ... raise),
\* collect_ohou_browser.py:442-447 (no handler): a failed discovery leaves
\* collect_one_brand by an exception.
DiscoverRaises(outcome) == outcome # "ok"

\* collect_ohou_browser.py:351  b.evaluate outside any try block: an exception
\* of one goods leaves the loop over goods. A status other than 200 (352-361)
\* only ends that goods. collect_coupang_browser.py:726-742 and
\* collect_wadiz_qa.py:418-511 catch every exception of one item.
ItemRaises(c, outcome) == c.kind = "ohou" /\ outcome = "timeout"

\* Is the failure of one item recorded as an error entry?
\* collect_coupang_browser.py:738-741 (client set and the message names a
\* block), collect_wadiz_qa.py:497-499 (always), collect_ohou_browser.py (no
\* error list).
ErrorEntry(c, outcome) ==
  IF c.kind = "coupang" THEN HasClient(c) /\ outcome = "blocked"
  ELSE c.kind = "wadiz"

NoBrand == [brand |-> 0, item |-> 0, n |-> 0, all |-> <<>>, err |-> <<>>]

InitBrand ==
  /\ pc = [p \in Procs |-> IF p = "p1" THEN "b_main" ELSE "idle"]
  /\ flock = InitFlock
  /\ lk = InitLk
  /\ file = <<>>
  /\ am = <<>>
  /\ sink = <<>>
  /\ cfg \in BrandConfigs
  /\ now = 1
  /\ ing = NoBrand
  /\ obs = [started |-> {}, discovered |-> {}, blocked |-> {},
            size |-> [b \in Brands |-> 0], visited |-> {}, failed |-> {},
            collected |-> {}, errors |-> {}, finished |-> {},
            reconciled |-> {}, ingested |-> {},
            errWrites |-> 0, rowWrites |-> 0]
  /\ lockFile = NoProc

restBrand == <<flock, lk, am, sink, cfg, now, lockFile>>

\* collect_coupang_browser.py:833-834, collect_ohou_browser.py main,
\* collect_wadiz_qa.py:745-746  the next source, or the end of main (return 0).
\* The wadiz pages of a project come from _page_urls (collect_wadiz_qa.py:407).
BrandNext ==
  /\ pc["p1"] = "b_main"
  /\ IF ing.brand < MaxBrands
       THEN /\ \E n \in 1..MaxProducts :
                 ing' = [NoBrand EXCEPT !.brand = ing.brand + 1,
                           !.n = IF cfg.kind = "wadiz" THEN n ELSE 0]
            /\ obs' = [obs EXCEPT !.started = @ \cup {ing.brand + 1},
                         !.size[ing.brand + 1] = ing'.n]
            /\ pc' = [pc EXCEPT !["p1"] =
                        IF cfg.kind = "wadiz" THEN "b_items" ELSE "b_discover"]
       ELSE /\ pc' = [pc EXCEPT !["p1"] = "b_done"]
            /\ UNCHANGED <<ing, obs>>
  /\ UNCHANGED <<file, restBrand>>

\* collect_coupang_browser.py:702-718, collect_ohou_browser.py:442-447
\* discovery of the source. A failed coupang discovery is logged to the error
\* tab when the client is set, then raised.
BrandDiscover ==
  /\ pc["p1"] = "b_discover"
  /\ \E outcome \in {"ok", "blocked"}, n \in 0..MaxProducts :
       IF DiscoverRaises(outcome)
         THEN /\ obs' = [obs EXCEPT !.blocked = @ \cup {ing.brand},
                           !.errWrites = IF cfg.kind = "coupang" /\ HasClient(cfg)
                                           THEN @ + 1 ELSE @]
              /\ pc' = [pc EXCEPT !["p1"] = "b_raised"]
              /\ UNCHANGED ing
         ELSE /\ ing' = [ing EXCEPT !.n = IF outcome = "ok" THEN n ELSE 0]
              /\ obs' = [obs EXCEPT
                           !.discovered = IF outcome = "ok"
                                            THEN @ \cup {ing.brand} ELSE @,
                           !.blocked = IF outcome = "ok"
                                         THEN @ ELSE @ \cup {ing.brand},
                           !.size[ing.brand] = ing'.n]
              /\ pc' = [pc EXCEPT !["p1"] = "b_items"]
  /\ UNCHANGED <<file, restBrand>>

\* collect_coupang_browser.py:723-742, collect_ohou_browser.py:327-431,
\* collect_wadiz_qa.py:414-511  the next item of the source
BrandItem ==
  /\ pc["p1"] = "b_items"
  /\ ing.item < ing.n
  /\ \E outcome \in Outcomes :
       LET it == <<ing.brand, ing.item + 1>>
           o1 == [obs EXCEPT !.visited = @ \cup {it}]
       IN  IF outcome = "ok"
             THEN /\ ing' = [ing EXCEPT !.item = @ + 1, !.all = Append(@, it)]
                  /\ obs' = [o1 EXCEPT !.collected = @ \cup {it}]
                  /\ pc' = pc
             ELSE IF ItemRaises(cfg, outcome)
               THEN /\ ing' = [ing EXCEPT !.item = @ + 1]
                    /\ obs' = [o1 EXCEPT !.failed = @ \cup {it}]
                    /\ pc' = [pc EXCEPT !["p1"] = "b_raised"]
               ELSE /\ ing' = [ing EXCEPT !.item = @ + 1,
                                 !.err = IF ErrorEntry(cfg, outcome)
                                           THEN Append(@, it) ELSE @]
                    /\ obs' = [o1 EXCEPT !.failed = @ \cup {it},
                                 !.errors = IF ErrorEntry(cfg, outcome)
                                              THEN @ \cup {it} ELSE @,
                                 !.errWrites =
                                    IF cfg.kind = "wadiz" /\ HasClient(cfg)
                                         /\ cfg.logErrors
                                      THEN @ + 1 ELSE @]
                    /\ pc' = pc
  /\ UNCHANGED <<file, restBrand>>

\* collect_coupang_browser.py:744-776, collect_ohou_browser.py:457-477,
\* collect_wadiz_qa.py:513-623  after the loop over items: the coupang error
\* rows are written, the artifact is written, and outside a dry-run the
\* collected records are ingested (sink rows, then the identity store).
BrandIngest ==
  /\ pc["p1"] = "b_items"
  /\ ing.item = ing.n
  /\ LET errs == IF cfg.kind = "coupang" /\ HasClient(cfg) /\ ing.err # <<>>
                   THEN 1 ELSE 0
         rows == IF ~cfg.dryRun /\ ing.all # <<>> THEN 1 ELSE 0
     IN  obs' = [obs EXCEPT
                   !.errWrites = @ + errs,
                   !.rowWrites = @ + rows,
                   !.finished = @ \cup {ing.brand},
                   !.reconciled = IF cfg.dryRun THEN @ ELSE @ \cup {ing.brand},
                   !.ingested = IF cfg.dryRun THEN @ ELSE @ \cup Range(ing.all)]
  /\ file' = IF cfg.dryRun THEN file ELSE file \o ing.all
  /\ pc' = [pc EXCEPT !["p1"] = "b_main"]
  /\ UNCHANGED <<ing, restBrand>>

NextBrand ==
  \/ BrandNext
  \/ BrandDiscover
  \/ BrandItem
  \/ BrandIngest

SpecBrand == InitBrand /\ [][NextBrand]_vars

\* C22: when the collection of one item fails, the batch is not aborted:
\* every item of the source is still visited, the records collected from the
\* other items reach reconciliation, and the failure is an error entry.
C22_ItemFailureIsolated ==
  \A f \in obs.failed :
    /\ ~(pc["p1"] = "b_raised" /\ ing.brand = f[1])
    /\ f[1] \in obs.finished =>
         /\ \A i \in 1..obs.size[f[1]] : <<f[1], i>> \in obs.visited
         /\ f \in obs.errors
         /\ ~cfg.dryRun =>
              \A r \in obs.collected : r[1] = f[1] => r \in obs.ingested

\* C23: the failure of one source never prevents the remaining sources of the
\* same run from being processed: when main ends, every source was started.
C23_SourcesIndependent ==
  pc["p1"] \in {"b_done", "b_raised"} => obs.started = Brands

\* C25: within one source of the coupang and ohou collectors, discovery
\* completes before the first item is collected, every item is collected
\* before reconciliation starts, and a source whose discovery raised is
\* never reconciled.
C25_PhaseOrder ==
  /\ [][cfg.kind # "wadiz" =>
          /\ \A x \in obs'.visited \ obs.visited :
               x[1] \in obs.discovered /\ x[1] \notin obs.reconciled
          /\ \A b \in obs'.reconciled \ obs.reconciled :
               /\ b \in obs.discovered
               /\ \A i \in 1..obs.size[b] : <<b, i>> \in obs.visited]_vars
  /\ [](cfg.kind # "wadiz" => obs.reconciled \cap obs.blocked = {})

\* C25 witness: the first coupang brand was reconciled after both of its
\* products were collected, and the discovery of the second brand raised.
C25_Witness ==
  /\ cfg.kind = "coupang"
  /\ 1 \in obs.reconciled
  /\ obs.size[1] = 2
  /\ {<<1, 1>>, <<1, 2>>} \subseteq obs.visited
  /\ 2 \in obs.blocked
  /\ pc["p1"] = "b_raised"

\* C29: in a dry-run of a collector no write of any kind reaches the sink
\* (neither review rows nor error-log rows) and the identity store is
\* unchanged, whatever discovery and collection end in.
C29_DryRunWritesNothing ==
  cfg.dryRun =>
    /\ obs.errWrites = 0
    /\ obs.rowWrites = 0
    /\ file = <<>>

\* ------------------------------------------------------------------------
\* SpecLoop: the bounded-time loops run_platform_loop.main (one command per
\* loop check) and run_browser_queue.main (one round of commands per loop
\* check). Process "p1" runs main; now is the clock.
\*   cfg = the command line;  ing = the locals;  obs = what has happened.
MaxMinutes == 3       \* --max-minutes, in clock ticks
MaxCmds == 2          \* collector commands of one round (run_one_round)

\* run_platform_loop.py:61  cfg.lock_path, run_browser_queue.py:116
\* DEFAULT_LOCK
LoopLock == "resA"

LoopConfigs == [kind : {"platform", "queue"}, maxMinutes : 1..MaxMinutes]

\* subprocess.run(..., timeout=timeout_s, check=False): the command returns
\* 0, returns another code, or is killed at the timeout (TimeoutExpired).
CmdOutcomes == {"zero", "nonzero", "timeout"}

\* Clock ticks one command (and the sleep after it) can take.
CmdTicks == {1, 2}

\* run_platform_loop.py:63 (one command), run_browser_queue.py:80 (for c in
\* cmds)
CmdsPerCheck(c) == IF c.kind = "queue" THEN MaxCmds ELSE 1

NoLoop == [deadline |-> 0, cmd |-> 0]

InitLoop ==
  /\ pc = [p \in Procs |-> IF p = "p1" THEN "l_start" ELSE "idle"]
  /\ flock = InitFlock
  /\ lk = InitLk
  /\ file = <<>>
  /\ am = <<>>
  /\ sink = <<>>
  /\ cfg \in LoopConfigs
  /\ now = 1
  /\ ing = NoLoop
  /\ obs = [checkAt |-> 0, rounds |-> 0, rcs |-> {}, exit |-> -1]
  /\ lockFile = NoProc

restLoop == <<lk, file, am, sink, cfg, lockFile>>

\* run_platform_loop.py:59-61, run_browser_queue.py:114-116
\* deadline = time.time() + max_minutes * 60;  with file_lock(...)
LoopStart ==
  /\ pc["p1"] = "l_start"
  /\ FlockAcquire("p1", LoopLock)
  /\ ing' = [ing EXCEPT !.deadline = now + cfg.maxMinutes]
  /\ pc' = [pc EXCEPT !["p1"] = "l_check"]
  /\ UNCHANGED <<now, obs, restLoop>>

\* run_platform_loop.py:62,66, run_browser_queue.py:118,121
\* while time.time() < deadline;  when it fails the with block ends (the lock
\* is released) and main returns 0
LoopCheck ==
  /\ pc["p1"] = "l_check"
  /\ IF now < ing.deadline
       THEN /\ ing' = [ing EXCEPT !.cmd = 1]
            /\ obs' = [obs EXCEPT !.checkAt = now, !.rounds = @ + 1]
            /\ pc' = [pc EXCEPT !["p1"] = "l_run"]
            /\ UNCHANGED flock
       ELSE /\ FlockRelease("p1", LoopLock)
            /\ obs' = [obs EXCEPT !.checkAt = now, !.exit = 0]
            /\ pc' = [pc EXCEPT !["p1"] = "l_exit"]
            /\ UNCHANGED ing
  /\ UNCHANGED <<now, restLoop>>

\* run_platform_loop.py:23-32,63-64, run_browser_queue.py:30-40,80-85
\* _run(cmd, timeout_s=...) and the sleep after it. The return code is
\* dropped. TimeoutExpired is caught nowhere: it leaves the with block (the
\* lock is released) and main, and the interpreter exits with code 1.
LoopRun ==
  /\ pc["p1"] = "l_run"
  /\ \E outcome \in CmdOutcomes, dt \in CmdTicks :
       /\ now' = now + dt
       /\ IF outcome = "timeout"
            THEN /\ FlockRelease("p1", LoopLock)
                 /\ obs' = [obs EXCEPT !.rcs = @ \cup {outcome}, !.exit = 1]
                 /\ pc' = [pc EXCEPT !["p1"] = "l_exit"]
                 /\ UNCHANGED ing
            ELSE /\ obs' = [obs EXCEPT !.rcs = @ \cup {outcome}]
                 /\ IF ing.cmd < CmdsPerCheck(cfg)
                      THEN /\ ing' = [ing EXCEPT !.cmd = @ + 1]
                           /\ pc' = pc
                      ELSE /\ pc' = [pc EXCEPT !["p1"] = "l_check"]
                           /\ UNCHANGED ing
                 /\ UNCHANGED flock
  /\ UNCHANGED restLoop

NextLoop ==
  \/ LoopStart
  \/ LoopCheck
  \/ LoopRun

SpecLoop == InitLoop /\ [][NextLoop]_vars

\* C24: the loop starts a round or command only if now < deadline at the
\* loop check and, whatever happened to the collector commands (non-zero
\* return code or timeout), it ends only by a failed check, with the run lock
\* released and exit code 0.
C24_LoopExit ==
  /\ pc["p1"] = "l_run" => obs.checkAt < ing.deadline
  /\ pc["p1"] = "l_exit" =>
       /\ obs.checkAt >= ing.deadline
       /\ FlockFree(LoopLock)
       /\ obs.exit = 0

\* ------------------------------------------------------------------------
\* SpecUpsert: one Reconcile run (ingest_ohou_json.main, process "p1") on a
\* sheet with gaps, from the scan to the last write.
\*   obs = the identity store when the run starts.

\* Rows 3, 4 and 6 hold k1, k2 and k3; rows 5 and 7 are blank.
GapSink ==
  WriteRows(WriteRows(EmptySink, StartRow,
                      <<[k |-> "k1", v |-> 1], [k |-> "k2", v |-> 1]>>),
            StartRow + 3, <<[k |-> "k3", v |-> 1]>>)

\* Row 3 holds k1; row 4 holds k2 with a column A that is not a date (a cell
\* edited by hand); the other rows are blank.
NoteSink ==
  [WriteRows(EmptySink, StartRow, <<[k |-> "k1", v |-> 1]>>)
     EXCEPT ![StartRow + 1] = [a |-> "note", k |-> "k2", v |-> 1]]

\* The reviews of the input file: new versions of k1, k2, k3 and two reviews
\* never ingested.
UpsertReviews == {[k |-> key, v |-> 2] : key \in {"k1", "k2", "k3", "n1", "n2"}}

\* Column N of the sheet, top down, without the blank cells.
RECURSIVE KeysInSheet(_, _)
KeysInSheet(sheet, r) ==
  IF r > MaxSheetRow THEN <<>>
  ELSE (IF sheet[r].k = "" THEN <<>> ELSE <<sheet[r].k>>) \o KeysInSheet(sheet, r + 1)

InitUpsert ==
  /\ pc = [p \in Procs |-> "idle"]
  /\ flock = InitFlock
  /\ lk = InitLk
  /\ sink \in {GapSink, NoteSink, EmptySink}
  /\ file \in {KeysInSheet(sink, StartRow), <<>>}
  /\ am = <<>>
  /\ cfg \in Configs
  /\ now = 1
  /\ ing = InitIng
  /\ obs = [file0 |-> file]
  /\ lockFile = NoProc

UpsertStart == \E reviews \in SeqsUpTo(UpsertReviews, MaxBatch + 1) : RecRun("p1", reviews)

NextUpsert ==
  \/ UpsertStart
  \/ RecScanA("p1")
  \/ RecScanN("p1")
  \/ UpdLock("p1")
  \/ UpdWrite("p1")
  \/ AppLock("p1")
  \/ AppWrite("p1")
  \/ Persist("p1")
  \/ WriteFails("p1")

SpecUpsert == InitUpsert /\ [][NextUpsert]_vars

\* ingest_ohou_json.py:215-244  the writes of the update loop on a sorted
\* list: one per flush_run
RECURSIVE UpdateWrites(_)
UpdateWrites(s) ==
  IF s = <<>> THEN <<>>
  ELSE LET n == FirstRunLen(s)
       IN <<[op |-> "upd", start |-> s[1].row, n |-> n]>>
            \o UpdateWrites(SubSeq(s, n + 1, Len(s)))

\* The sorted target rows 5, 6, 7, 10, 11.
ExampleTargets == [i \in 1..5 |-> [row |-> <<5, 6, 7, 10, 11>>[i]]]

\* The target rows of a run, sorted (ingest_ohou_json.py:206, 214).
UpdTargets(f) ==
  LET s == SortByRow(ToUpdate(f.rows, f.keyToRow))
  IN [i \in DOMAIN s |-> s[i].row]

\* The maximal runs of consecutive row numbers of a sorted list t, as writes.
RunsOfTargets(t) ==
  LET starts == {i \in DOMAIN t : i = 1 \/ t[i] # t[i - 1] + 1}
      nth(j) == CHOOSE x \in starts : Cardinality({y \in starts : y < x}) = j - 1
      m == Cardinality(starts)
  IN [j \in 1..m |->
        [op |-> "upd", start |-> t[nth(j)],
         n |-> (IF j = m THEN Len(t) + 1 ELSE nth(j + 1)) - nth(j)]]

\* The writes of one kind a run has issued, in order.
WritesOf(f, op) == SelectSeq(f.writes, LAMBDA w : w.op = op)

\* The rows a write covers.
RowsOfWrite(w) == w.start..(w.start + w.n - 1)

\* The last write of the step, if the step is a write of that kind.
Wrote(p, op) ==
  /\ Len(ing'[p].writes) = Len(ing[p].writes) + 1
  /\ ing'[p].writes[Len(ing'[p].writes)].op = op

\* C26: for toUpdate the reconciler issues exactly one batched write per
\* maximal run of consecutive row numbers of the sorted targets (rows
\* 5,6,7,10,11 give the 2 writes 5-7 and 10-11), and the i-th payload row of a
\* write goes to row run_start+i, the row in which its key was found.
C26_UpdateRuns ==
  /\ [](UpdateWrites(ExampleTargets) =
          <<[op |-> "upd", start |-> 5, n |-> 3], [op |-> "upd", start |-> 10, n |-> 2]>>)
  /\ [](LET f == ing["p1"]
        IN (f.kind = "rec" /\ pc["p1"] \notin {"idle", "scanA", "scanN"}) =>
             /\ IsPrefix(WritesOf(f, "upd"), RunsOfTargets(UpdTargets(f)))
             /\ f.toUpdate = <<>> =>
                  WritesOf(f, "upd") = RunsOfTargets(UpdTargets(f)))
  /\ [][Wrote("p1", "upd") =>
          LET f == ing["p1"]
              w == ing'["p1"].writes[Len(ing'["p1"].writes)]
          IN /\ \A j \in 1..w.n :
                  /\ f.keyToRow[f.toUpdate[j].rec.k] = w.start + j - 1
                  /\ sink'[w.start + j - 1] = RowOf(f.toUpdate[j].rec)
             /\ \A r \in SheetRowNums \ RowsOfWrite(w) : sink'[r] = sink[r]]_vars

\* C26 witness: the batch k1, k2, k3 on the sheet with the gap was written by
\* two writes, rows 3-4 and row 6.
C26_Witness ==
  /\ pc["p1"] = "done"
  /\ ing["p1"].sink0 = GapSink
  /\ ing["p1"].writes =
       <<[op |-> "upd", start |-> StartRow, n |-> 2],
         [op |-> "upd", start |-> StartRow + 3, n |-> 1]>>

\* The rows the scan recorded as present: the rows up to last and the rows of
\* key_to_row.
Present(f) == (StartRow..f.last) \cup Range(f.keyToRow)

\* C27: for toAppend the reconciler writes chunks of at most batch_size rows
\* to consecutive, non-overlapping ranges beginning at (highest present
\* row)+1, in input order, so every toAppend record is written to exactly one
\* row and no row the scan recorded as present (every row of the key-to-row
\* map included) is overwritten.
C27_AppendRanges ==
  LET f == ing["p1"]
      ws == WritesOf(f, "app")
      before(j) == IF j = 1 THEN 0 ELSE f.chunk * (j - 1)
  IN f.kind = "rec" =>
       /\ \A j \in DOMAIN ws :
            /\ ws[j].n <= cfg.batchSize
            /\ ws[j].start = f.last + 1 + before(j)
            /\ RowsOfWrite(ws[j]) \cap Present(f) = {}
       /\ pc["p1"] = "done" =>
            \A i \in DOMAIN f.toAppend :
              /\ sink[f.last + i] = RowOf(f.toAppend[i])
              /\ f.appended = Len(f.toAppend)

\* C28: Reconcile adds to the identity store exactly the keys of the records
\* it appended, each chunk's keys right after that chunk's write, and no key
\* of a record it updated in place; a batch that is entirely toUpdate leaves
\* the store unchanged.
C28_StoreGetsAppendedKeys ==
  LET f == ing["p1"]
      keysUpTo(n) == Range(KeysOfSeq(SubSeq(f.toAppend, 1, n)))
  IN (f.kind = "rec" /\ pc["p1"] \notin {"idle", "scanA", "scanN"}) =>
       /\ Load(file) = Load(obs.file0) \cup keysUpTo(f.i)
       /\ pc["p1"] # "persist" => f.i = f.appended
       /\ pc["p1"] = "persist" => f.appended = f.i + Len(Chunk(f))
       /\ \A k \in DOMAIN f.keyToRow :
            k \in Load(file) => k \in Load(obs.file0)
       /\ f.toAppend = <<>> => file = obs.file0

\* C28 witness: a run on a sheet whose keys the store lacks updated k1 in
\* place and appended n1 and n2 in two chunks; the store holds n1 and n2 only.
C28_Witness ==
  /\ pc["p1"] = "done"
  /\ obs.file0 = <<>>
  /\ ing["p1"].updated = 1
  /\ ing["p1"].appended = 2
  /\ Len(WritesOf(ing["p1"], "app")) = 2
  /\ Load(file) = {"n1", "n2"}

\* ------------------------------------------------------------------------
\* SpecPool: collect_reviews.main. The pool's threads run _work (the fetch of
\* one product); the main thread ("p1") takes the results as they complete
\* and filters their reviews through the run-scoped seen-set.
\*   cfg = the products' reviews, the store when the run starts, the pool
\*         size;  ing = the locals of main and the futures;  obs = the rows
\*         handed to append_fixed.
MaxReviews == 2       \* reviews on one product page

PoolUrls == {"u1", "u2"}

\* The identity keys of a product's reviews: the key hashes the product URL
\* (collect_reviews.py:179-185), so two products share no key.
PoolKeys(u) == IF u = "u1" THEN {"u1a", "u1b"} ELSE {"u2a", "u2b"}

PoolConfigs ==
  {c \in [reviews : [PoolUrls -> SeqsUpTo({"u1a", "u1b", "u2a", "u2b"}, MaxReviews)],
          seen0 : {{}, {"u1a"}},
          workers : {1, 2}] :
     \A u \in PoolUrls : Range(c.reviews[u]) \subseteq PoolKeys(u)}

\* A worker that adds the keys it fetched to the seen-set.
WorkerSeenAdds(seen, fetched) == seen \cup Range(fetched)

\* collect_reviews.py:153-155  _work only fetches: the seen-set is as it was
WorkerSeen(seen, fetched) == seen

NoPool ==
  [fut |-> [u \in PoolUrls |-> "none"], res |-> [u \in PoolUrls |-> ""],
   seen |-> {}, cur |-> "", i |-> 0, rows |-> <<>>, newKeys |-> <<>>, errs |-> 0]

InitPool ==
  /\ pc = [p \in Procs |-> IF p = "p1" THEN "w_start" ELSE "idle"]
  /\ flock = InitFlock
  /\ lk = InitLk
  /\ cfg \in PoolConfigs
  /\ file = IF cfg.seen0 = {} THEN <<>> ELSE <<"u1a">>
  /\ am = <<>>
  /\ sink = <<>>
  /\ now = 1
  /\ ing = NoPool
  /\ obs = [appended |-> <<>>]
  /\ lockFile = NoProc

restPool == <<flock, lk, am, sink, cfg, now, lockFile>>

\* collect_reviews.py:136-158  seen_keys = dedup_state.load(); every product
\* is submitted to the pool
PoolSubmit ==
  /\ pc["p1"] = "w_start"
  /\ ing' = [NoPool EXCEPT !.seen = Load(file),
                           !.fut = [u \in PoolUrls |-> "queued"]]
  /\ pc' = [pc EXCEPT !["p1"] = "w_wait"]
  /\ UNCHANGED <<file, obs, restPool>>

\* ThreadPoolExecutor(max_workers=workers): a free thread starts _work(u)
WorkStart(u) ==
  /\ ing.fut[u] = "queued"
  /\ Cardinality({v \in PoolUrls : ing.fut[v] = "running"}) < cfg.workers
  /\ ing' = [ing EXCEPT !.fut[u] = "running"]
  /\ UNCHANGED <<pc, file, obs, restPool>>

\* collect_reviews.py:153-155  _work(u) returns the product's reviews or an
\* error
WorkDone(u) ==
  /\ ing.fut[u] = "running"
  /\ \E outcome \in {"ok", "err"} :
       ing' = [ing EXCEPT !.fut[u] = "finished", !.res[u] = outcome,
                          !.seen = WorkerSeen(@, cfg.reviews[u])]
  /\ UNCHANGED <<pc, file, obs, restPool>>

\* The position of main after review i of the product in hand.
AfterReview(f) ==
  IF f.i < Len(cfg.reviews[f.cur]) THEN "w_check" ELSE "w_wait"

\* collect_reviews.py:159-170  as_completed yields a finished future; an
\* error is noted and the loop goes on
PoolTake(u) ==
  /\ pc["p1"] = "w_wait"
  /\ ing.fut[u] = "finished"
  /\ IF ing.res[u] = "err"
       THEN /\ ing' = [ing EXCEPT !.fut[u] = "taken", !.errs = @ + 1]
            /\ pc' = pc
       ELSE LET f == [ing EXCEPT !.fut[u] = "taken", !.cur = u, !.i = 0]
            IN /\ ing' = f
               /\ pc' = [pc EXCEPT !["p1"] = AfterReview(f)]
  /\ UNCHANGED <<file, obs, restPool>>

\* collect_reviews.py:172-188  the next review: if dedup_key in seen_keys:
\* continue
PoolCheck ==
  /\ pc["p1"] = "w_check"
  /\ LET key == cfg.reviews[ing.cur][ing.i + 1]
     IN IF key \in ing.seen
          THEN LET f == [ing EXCEPT !.i = @ + 1]
               IN ing' = f /\ pc' = [pc EXCEPT !["p1"] = AfterReview(f)]
          ELSE ing' = ing /\ pc' = [pc EXCEPT !["p1"] = "w_add"]
  /\ UNCHANGED <<file, obs, restPool>>

\* collect_reviews.py:189-208  seen_keys.add, new_keys.append, rows.append
PoolAdd ==
  /\ pc["p1"] = "w_add"
  /\ LET key == cfg.reviews[ing.cur][ing.i + 1]
         f == [ing EXCEPT !.i = @ + 1, !.seen = @ \cup {key},
                          !.newKeys = Append(@, key), !.rows = Append(@, key)]
     IN ing' = f /\ pc' = [pc EXCEPT !["p1"] = AfterReview(f)]
  /\ UNCHANGED <<file, obs, restPool>>

\* collect_reviews.py:210-222  after every future was taken: append_fixed of
\* the rows, then add_many of their keys
PoolFinish ==
  /\ pc["p1"] = "w_wait"
  /\ \A u \in PoolUrls : ing.fut[u] = "taken"
  /\ obs' = [obs EXCEPT !.appended = ing.rows]
  /\ file' = IF ing.rows = <<>> THEN file ELSE AddMany(file, ing.newKeys)
  /\ pc' = [pc EXCEPT !["p1"] = "w_done"]
  /\ UNCHANGED <<ing, restPool>>

NextPool ==
  \/ PoolSubmit
  \/ \E u \in PoolUrls : WorkStart(u)
  \/ \E u \in PoolUrls : WorkDone(u)
  \/ \E u \in PoolUrls : PoolTake(u)
  \/ PoolCheck
  \/ PoolAdd
  \/ PoolFinish

SpecPool == InitPool /\ [][NextPool]_vars

\* The keys a run has to append: the keys of the fetched products that the
\* store did not hold when the run started.
PoolExpected ==
  UNION {Range(cfg.reviews[u]) : u \in {v \in PoolUrls : ing.res[v] = "ok"}}
    \ cfg.seen0

\* C30: for every completion order of the pooled workers the seen-set changes
\* only by the add that follows main's check of the same key (no mutation
\* comes between a check and its add), no identity key is appended twice in a
\* run, and the set of appended keys is the same for every completion order.
C30_SeenSetSerialized ==
  /\ [][(pc["p1"] # "w_start" /\ ing'.seen # ing.seen) =>
          /\ pc["p1"] = "w_add"
          /\ ing'.seen = ing.seen \cup {cfg.reviews[ing.cur][ing.i + 1]}
          /\ ing'.i = ing.i + 1]_vars
  /\ [](Cardinality(Range(ing.rows)) = Len(ing.rows))
  /\ [](pc["p1"] = "w_done" =>
          /\ obs.appended = ing.rows
          /\ Range(obs.appended) = PoolExpected)

\* C30 witness: with two workers the second product was taken before the
\* first; both brought a new key, and a key repeated on a page was appended
\* once.
C30_Witness ==
  /\ pc["p1"] = "w_done"
  /\ cfg.workers = 2
  /\ cfg.reviews["u1"] = <<"u1b", "u1b">>
  /\ obs.appended = <<"u2a", "u1b">>

\* ------------------------------------------------------------------------
\* SpecKey: the identity key of one review on its way through a collector
\* (coupang or ohou), the JSON artifact and the ingester, and through the
\* collector of the next run that meets the same review under a product URL
\* with more query parameters.
\*   cfg = the review and the URLs;  ing = the artifact's record and the
\*   store;  obs = the keys computed.
MaxQuery == 1         \* query parameters of the product URL as first met

\* A URL: host, the digits after /vp/products/ in its path ("" if the path
\* has no such part), and its query parameters.
QueryParams == {"ref=xyz", "page=2", "next=/vp/products/9"}

Urls ==
  [host : {"www", "m"}, pid : {"", "7", "8"}, q : SeqsUpTo(QueryParams, MaxQuery)]

\* The first match of /vp/products/(\d+) in the URL read left to right: in the
\* path, else in the query ("" if none).
ProductId(u) ==
  IF u.pid # "" THEN u.pid
  ELSE IF \E i \in DOMAIN u.q : u.q[i] = "next=/vp/products/9" THEN "9"
  ELSE ""

\* The URL kept as it is, query included.
NormalizeNothing(u) == u

\* collect_coupang_browser.py:235-247  normalize_coupang_product_url
Normalize(u) ==
  IF ProductId(u) = "" THEN u
  ELSE [host |-> "www", pid |-> ProductId(u), q |-> <<>>]

\* U with one more query parameter.
WithParam(u, p) == [u EXCEPT !.q = Append(@, p)]

\* A field of a scraped review: a text, the empty text or a missing value.
None == "<None>"
RawFields == {None, "", "x", "y"}

\* str(v or "")
Str(v) == IF v = None THEN "" ELSE v

\* hashlib.sha256(s.encode("utf-8")).hexdigest(): one digest per text.
Sha(s) == <<"sha256", s>>

\* collect_coupang_browser.py:383-390, collect_ohou_browser.py:292-301,
\* ingest_coupang_json.py:80-87, ingest_ohou_json.py:116-133
\* sha256("|".join([platform, product_url, author, review_date, sha256(body)]))
DedupKey(platform, url, author, date, body) ==
  Sha(<<platform, url, author, date, Sha(body)>>)

\* collect_coupang_browser.py:638 (the normalized URL),
\* collect_ohou_browser.py:332 (https://store.ohou.se/goods/{gid})
RecordUrl(kind, u) ==
  IF kind = "coupang" THEN Normalize(u)
  ELSE [host |-> "store.ohou.se", pid |-> u.pid, q |-> <<>>]

\* collect_coupang_browser.py:616-625, collect_ohou_browser.py:368-389
\* the key the collector computes eagerly
EagerKey(kind, u, raw) ==
  DedupKey(kind, RecordUrl(kind, u), Str(raw.author), Str(raw.date), Str(raw.body))

\* collect_coupang_browser.py:633-650, collect_ohou_browser.py:398-413
\* the record written to the artifact
Emitted(kind, u, raw) ==
  [platform |-> kind, product_url |-> RecordUrl(kind, u),
   author |-> Str(raw.author), review_date |-> Str(raw.date),
   body |-> Str(raw.body)]

\* An ingester that leaves the author out of the key.
IngestKeyNoAuthor(rec) ==
  DedupKey(Str(rec.platform), rec.product_url, "", Str(rec.review_date),
           Str(rec.body))

\* ingest_coupang_json.py:57-87, ingest_ohou_json.py:106-133  the key the
\* ingester computes from the artifact's record
IngestKey(rec) ==
  DedupKey(Str(rec.platform), rec.product_url, Str(rec.author),
           Str(rec.review_date), Str(rec.body))

KeyConfigs ==
  {c \in [kind : {"coupang", "ohou"}, url : Urls, extra : QueryParams,
          raw : [author : RawFields, date : {None, "d1"}, body : RawFields]] :
     c.kind = "ohou" => (c.url.host = "www" /\ c.url.pid # "" /\ c.url.q = <<>>)}

NoKey == [rec |-> <<>>, store |-> {}]

InitKey ==
  /\ pc = [p \in Procs |-> IF p = "p1" THEN "k_start" ELSE "idle"]
  /\ flock = InitFlock
  /\ lk = InitLk
  /\ file = <<>>
  /\ am = <<>>
  /\ sink = <<>>
  /\ cfg \in KeyConfigs
  /\ now = 1
  /\ ing = NoKey
  /\ obs = [eager |-> <<>>, ingest |-> <<>>, again |-> <<>>, recognised |-> FALSE]
  /\ lockFile = NoProc

restKey == <<flock, lk, file, am, sink, cfg, now, lockFile>>

\* The collector meets the review under cfg.url: the eager key and the
\* emitted record.
KeyCollect ==
  /\ pc["p1"] = "k_start"
  /\ obs' = [obs EXCEPT !.eager = EagerKey(cfg.kind, cfg.url, cfg.raw)]
  /\ ing' = [ing EXCEPT !.rec = Emitted(cfg.kind, cfg.url, cfg.raw)]
  /\ pc' = [pc EXCEPT !["p1"] = "k_emitted"]
  /\ UNCHANGED restKey

\* The ingester reads the record, computes its key, appends the row and
\* persists the key (ingest_coupang_json.py:111-122, ingest_ohou_json.py:
\* 247-257; the store is empty before).
KeyIngest ==
  /\ pc["p1"] = "k_emitted"
  /\ obs' = [obs EXCEPT !.ingest = IngestKey(ing.rec)]
  /\ ing' = [ing EXCEPT !.store = @ \cup {IngestKey(ing.rec)}]
  /\ pc' = [pc EXCEPT !["p1"] = "k_ingested"]
  /\ UNCHANGED restKey

\* The collector of the next run loads the store and meets the same review;
\* the coupang product URL now has one more query parameter.
KeyCollectAgain ==
  /\ pc["p1"] = "k_ingested"
  /\ LET u == IF cfg.kind = "coupang" THEN WithParam(cfg.url, cfg.extra) ELSE cfg.url
         k == EagerKey(cfg.kind, u, cfg.raw)
     IN obs' = [obs EXCEPT !.again = k, !.recognised = k \in ing.store]
  /\ pc' = [pc EXCEPT !["p1"] = "k_again"]
  /\ UNCHANGED <<ing, restKey>>

NextKey ==
  \/ KeyCollect
  \/ KeyIngest
  \/ KeyCollectAgain

SpecKey == InitKey /\ [][NextKey]_vars

\* C31: a raw record collected for a coupang product URL U and the same
\* record collected for U with one more query parameter get the same identity
\* key, both URLs canonicalizing to the same product identifier.
C31_QueryInvariant ==
  (pc["p1"] = "k_again" /\ cfg.kind = "coupang" /\ ProductId(cfg.url) # "") =>
     /\ ProductId(WithParam(cfg.url, cfg.extra)) = ProductId(cfg.url)
     /\ obs.again = obs.eager

\* C31 witness: the review was met under /vp/products/7?ref=xyz of the mobile
\* host and then under the same URL with &page=2.
C31_Witness ==
  /\ pc["p1"] = "k_again"
  /\ cfg.kind = "coupang"
  /\ cfg.url = [host |-> "m", pid |-> "7", q |-> <<"ref=xyz">>]
  /\ cfg.extra = "page=2"
  /\ obs.again = obs.eager

CrashLists == {k \in SeqsUpTo(Keys \cup {EmptyKey}, MaxItems) : NoRepeat(k)}

\* state.py:28-30  the file object is buffered and flushed when the buffer is
\* full or the file is closed, not at line ends: what a killed process leaves
\* of the line it was writing is a part of the key, or the key without its
\* newline.
Cut(k) == {"k", k}

\* state.py:28-30  open(path, "a") and f.write(i + "\n"): the bytes go after
\* the last byte of the file, so onto its last line when that has no newline.
WriteLine(f, open, k) ==
  IF open /\ f # <<>> THEN [f EXCEPT ![Len(f)] = @ \o k] ELSE Append(f, k)

InitCrash ==
  /\ pc = [p \in Procs |-> "idle"]
  /\ flock = InitFlock
  /\ lk = InitLk
  /\ file \in {<<>>, <<"k1">>}
  /\ am = InitAm
  /\ sink = <<>>
  /\ cfg \in [items : CrashLists]
  /\ now = 1
  /\ ing = [open |-> FALSE]
  /\ obs = [file0 |-> file, sumRet |-> 0, called |-> {}, repeat |-> FALSE,
            crashed |-> FALSE]
  /\ lockFile = NoProc

\* state.py:20-23  add_many(K): by "p1" first, by "p2" once "p1" was killed
CrCall(p) ==
  /\ pc[p] = "idle"
  /\ am[p].calls = 0
  /\ \/ p = "p1" /\ ~obs.crashed
     \/ p = "p2" /\ obs.crashed
  /\ am' = [am EXCEPT ![p] = [items |-> cfg.items, existing |-> {},
                              newItems |-> <<>>, idx |-> 1, result |-> 0,
                              calls |-> 1]]
  /\ pc' = [pc EXCEPT ![p] = "am_open"]
  /\ UNCHANGED <<flock, file, obs, restStore>>

\* state.py:29-30  f.write(i + "\n") reaching the file
CrWriteLine(p) ==
  /\ pc[p] = "am_write"
  /\ am[p].idx <= Len(am[p].newItems)
  /\ file' = WriteLine(file, ing.open, am[p].newItems[am[p].idx])
  /\ ing' = [ing EXCEPT !.open = FALSE]
  /\ am' = [am EXCEPT ![p].idx = @ + 1]
  /\ UNCHANGED <<pc, flock, obs, lk, sink, cfg, now, lockFile>>

\* The process is killed between two steps of add_many: the OS closes its
\* descriptors, which drops the flock; inside the write loop a part of the
\* next line may have reached the file.
CrKill(p) ==
  /\ p = "p1"
  /\ pc[p] \in {"am_open", "am_load", "am_write", "am_unlock"}
  /\ FlockReleaseAll(p)
  /\ \/ UNCHANGED <<file, ing>>
     \/ /\ pc[p] = "am_write"
        /\ am[p].idx <= Len(am[p].newItems)
        /\ \E part \in Cut(am[p].newItems[am[p].idx]) :
             file' = WriteLine(file, ing.open, part)
        /\ ing' = [ing EXCEPT !.open = TRUE]
  /\ obs' = [obs EXCEPT !.crashed = TRUE]
  /\ am' = [am EXCEPT ![p] = NoFrame(@.calls)]
  /\ pc' = [pc EXCEPT ![p] = "idle"]
  /\ UNCHANGED <<lk, sink, cfg, now, lockFile>>

NextCrash ==
  \E p \in StoreProcs :
    \/ CrCall(p)
    \/ AmLock(p)
    \/ AmLoad(p)
    \/ CrWriteLine(p)
    \/ AmWritten(p)
    \/ AmUnlock(p)
    \/ CrKill(p)

SpecCrash == InitCrash /\ [][NextCrash]_vars

\* The keys of K missing from the store before the first call.
CrashMissing == NewItems(cfg.items, Load(obs.file0))

\* C32: once the process calling add_many(K) was killed, the backing file
\* holds its previous content followed by a prefix of the new keys as whole
\* lines and the lock is free; once a later add_many(K) has returned, the file
\* holds the previous content followed by each missing key exactly once.
C32_CrashThenRetry ==
  /\ (obs.crashed /\ am["p2"].calls = 0) =>
        /\ ~ing.open
        /\ \E j \in 0..Len(CrashMissing) :
             file = obs.file0 \o SubSeq(CrashMissing, 1, j)
        /\ FlockFree(DedupLock)
  /\ (obs.crashed /\ am["p2"].calls = 1 /\ pc["p2"] = "idle") =>
        /\ file = obs.file0 \o CrashMissing
        /\ Load(cfg.items) \subseteq Load(file)

\* =========================================================================
\* SpecIngest: one ingestion run with every outcome of the sink write
\*   ingest_ohou_json.py:175-259 (chunked), ingest_coupang_json.py:111-122,
\*   collect_reviews.py:210-222, collect_wadiz_qa.py:573-593 (append_fixed
\*   followed by add_many), sheets_client.py:57-90, 114-139
\* =========================================================================
\* big: the JSON payload of a write is longer than 20000 characters, so
\* update() goes through _api_values_update (curl) instead of gog.
IngestConfigs == [batchSize : {1, 2}, maxScanRow : {MaxSheetRow}, big : BOOLEAN]

InitIngest ==
  /\ pc = [p \in Procs |-> "idle"]
  /\ flock = InitFlock
  /\ lk = InitLk
  /\ \/ sink = EmptySink /\ file = <<>>
     \/ sink = FilledSink /\ file = [i \in 1..3 |-> FilledSink[StartRow + i - 1].k]
  /\ am = <<>>
  /\ cfg \in IngestConfigs
  /\ now = 1
  /\ ing = InitIng
  /\ obs = [file0 |-> file]
  /\ lockFile = NoProc

\* sheets_client.py:70-86  subprocess.check_call(["curl", "-s", "-X", "PUT",
\* ...]) without --fail: curl exits 0 on an HTTP error answer (401, 429, a
\* range outside the grid), so _api_values_update and update return although
\* no cell was written; the caller goes on as after a write.
WriteUnanswered(p) ==
  /\ pc[p] \in {"upd_w", "app_w"}
  /\ cfg.big
  /\ IF pc[p] = "upd_w"
     THEN LET n == FirstRunLen(ing[p].toUpdate)
              f == [ing[p] EXCEPT !.toUpdate = SubSeq(@, n + 1, Len(@)),
                                  !.updated = @ + n]
          IN /\ ing' = [ing EXCEPT ![p] = f]
             /\ pc' = [pc EXCEPT ![p] = NextPhase(f)]
     ELSE /\ ing' = [ing EXCEPT ![p].appended = @ + Len(Chunk(ing[p]))]
          /\ pc' = [pc EXCEPT ![p] = "persist"]
  /\ FlockRelease(p, SheetsLock)
  /\ UNCHANGED <<file, sink, now, restSink>>

NextIngest ==
  \/ RecStart("p1")
  \/ FixedStart("p1")
  \/ RecScanA("p1")
  \/ RecScanN("p1")
  \/ FixedScan("p1")
  \/ UpdLock("p1")
  \/ UpdWrite("p1")
  \/ AppLock("p1")
  \/ AppWrite("p1")
  \/ WriteUnanswered("p1")
  \/ Persist("p1")
  \/ WriteFails("p1")

SpecIngest == InitIngest /\ [][NextIngest]_vars

\* The keys in column N of the sheet.
SinkKeys == {sink[r].k : r \in SheetRowNums} \ {EmptyKey}

\* C33: the keys of a batch are persisted only after the sink write carrying
\* their rows has returned, none of them when that write raised, so every key
\* the run put into the IdentityStore has its row in the sink.
C33_PersistedKeysAreWritten ==
  /\ pc["p1"] = "failed" =>
       Load(file) \ Load(obs.file0) \subseteq
         {ing["p1"].toAppend[j].k : j \in 1..ing["p1"].i}
  /\ Load(file) \ Load(obs.file0) \subseteq SinkKeys

\* ---- append_fixed and the rows already in the tab (SpecAppend) -----------
\* C34: append_fixed never overwrites a row whose sentinel cell (column A)
\* matches the date pattern, whatever amount of data the tab holds, so no
\* write of a sequence of runs changes a row an earlier write filled.
C34_NeverOverwrites ==
  [][\A r \in SheetRowNums : IsDate(sink[r].a) => sink'[r] = sink[r]]_vars

\* ---- the sheet's keys and the store after Reconcile runs (SpecRetry) -----
\* C35: after a Reconcile run and its re-run, also when the first run was
\* killed between a chunk's sink write and the persist of its keys and the
\* re-run went to completion, every identity key in the sheet's key column is
\* in the IdentityStore.
C35_SinkKeysInStore ==
  (pc["p1"] \in Ended /\ pc["p2"] = "done") => SinkKeys \subseteq Load(file)

\* =========================================================================
\* SpecNest: loops, collectors and ingesters taking their locks
\*   run_platform_loop.py:59-64, run_browser_queue.py:114-119 (loop lock
\*   around the collector commands), collect_coupang_browser.py:831-835,
\*   collect_wadiz_qa.py:734-746 (collector lock around collection and
\*   ingestion), sheets_client.py:114-139 (sheets lock around one write),
\*   state.py:20-31 (store lock around add_many)
\* =========================================================================
NestRoles == {"loop", "collector", "ingest"}
NestSources == {"coupang", "wadiz"}

\* The level of a lock file: the loop/queue lock, the collector lock of a
\* source, the sheets lock and the store lock.
Level(path) ==
  IF path \in GenericPaths THEN 1
  ELSE IF path \in Sources THEN 2
  ELSE 3

Held(p) == {path \in LockPaths : flock[path] = p}

\* Each process is one invocation: it is started once and ends in "done".
NoNest == [role |-> "none", path |-> "resA", src |-> "coupang", cmds |-> 0,
           wrote |-> FALSE]

InitNest ==
  /\ pc = [p \in Procs |-> "idle"]
  /\ flock = InitFlock
  /\ lk = InitLk
  /\ file = <<>>
  /\ am = <<>>
  /\ sink = <<>>
  /\ cfg = <<>>
  /\ now = 1
  /\ ing = [p \in Procs |-> NoNest]
  /\ obs = <<>>
  /\ lockFile = NoProc

restNest == <<lk, file, am, sink, cfg, now, obs, lockFile>>

\* The first lock a collector of the source asks for: collect_wadiz_qa.main
\* loads the seen keys under the store lock before it takes the collector
\* lock (lines 734-735); the others start with the collector lock.
CollectorEntry(src) == IF src = "wadiz" THEN "pre_wait" ELSE "col_wait"

\* Where a process is once its collector (or ingester) has ended: a loop goes
\* on with its next command, the others are done.
AfterCollector(f) == IF f.role = "loop" THEN "in_loop" ELSE "done"

\* The frame once the collector (or ingester) has ended.
NestAfter(f) ==
  IF f.role = "loop" THEN [f EXCEPT !.wrote = FALSE, !.src = NoNest.src] ELSE NoNest

\* sheets_client.py:118-139 leaving the "with file_lock" block with the lock
\* still held.
SheetUnlockKeep(p) == FlockKeep(p, SheetsLock)

\* sheets_client.py:118-139, lock.py:20-30  update() returns: the sheets lock
\* is dropped
SheetUnlock(p) == FlockRelease(p, SheetsLock)

\* A loop, a collector or an ingester is started (cron, by hand).
NestStart(p) ==
  /\ pc[p] = "idle"
  /\ \/ /\ ing' = [ing EXCEPT ![p].role = "loop", ![p].path = LoopLock]
        /\ pc' = [pc EXCEPT ![p] = "loop_wait"]
     \/ \E src \in NestSources :
          /\ ing' = [ing EXCEPT ![p].role = "collector", ![p].src = src]
          /\ pc' = [pc EXCEPT ![p] = CollectorEntry(src)]
     \/ /\ ing' = [ing EXCEPT ![p].role = "ingest"]
        /\ pc' = [pc EXCEPT ![p] = "sheet_wait"]
  /\ UNCHANGED <<flock, restNest>>

\* run_platform_loop.py:61 / run_browser_queue.py:116  with file_lock(lock)
NestLoopLock(p) ==
  /\ pc[p] = "loop_wait"
  /\ FlockAcquire(p, ing[p].path)
  /\ pc' = [pc EXCEPT ![p] = "in_loop"]
  /\ UNCHANGED <<ing, restNest>>

\* run_platform_loop.py:62-63 / run_browser_queue.py:81-86  the loop runs a
\* collector command and waits for it
NestCmd(p) ==
  /\ pc[p] = "in_loop"
  /\ ing[p].cmds < MaxCmds
  /\ \E src \in NestSources :
       /\ ing' = [ing EXCEPT ![p].src = src, ![p].cmds = @ + 1, ![p].wrote = FALSE]
       /\ pc' = [pc EXCEPT ![p] = CollectorEntry(src)]
  /\ UNCHANGED <<flock, restNest>>

\* run_platform_loop.py:62-66 / run_browser_queue.py:118-121  the deadline has
\* passed: the block is left, the loop lock dropped
NestLoopEnd(p) ==
  /\ pc[p] = "in_loop"
  /\ FlockRelease(p, ing[p].path)
  /\ pc' = [pc EXCEPT ![p] = "done"]
  /\ ing' = [ing EXCEPT ![p] = NoNest]
  /\ UNCHANGED restNest

\* collect_wadiz_qa.py:734  with file_lock(cfg.dedup_path + ".lock")
NestPreLock(p) ==
  /\ pc[p] = "pre_wait"
  /\ FlockAcquire(p, DedupLock)
  /\ pc' = [pc EXCEPT ![p] = "pre"]
  /\ UNCHANGED <<ing, restNest>>

\* collect_wadiz_qa.py:735  seen_keys = load(); the block is left
NestPreLoad(p) ==
  /\ pc[p] = "pre"
  /\ FlockRelease(p, DedupLock)
  /\ pc' = [pc EXCEPT ![p] = "col_wait"]
  /\ UNCHANGED <<ing, restNest>>

\* collect_coupang_browser.py:831 / collect_wadiz_qa.py:744
\* with file_lock(DEFAULT_COLLECTOR_LOCK)
NestColLock(p) ==
  /\ pc[p] = "col_wait"
  /\ FlockAcquire(p, CollectorLock(ing[p].src))
  /\ pc' = [pc EXCEPT ![p] = "in_col"]
  /\ UNCHANGED <<ing, restNest>>

\* collect_wadiz_qa.py:573-591 / collect_coupang_browser.py:773-780  the
\* collector (or the ingester it starts and waits for) calls append_fixed /
\* update
NestIngest(p) ==
  /\ pc[p] = "in_col"
  /\ ~ing[p].wrote
  /\ ing' = [ing EXCEPT ![p].wrote = TRUE]
  /\ pc' = [pc EXCEPT ![p] = "sheet_wait"]
  /\ UNCHANGED <<flock, restNest>>

\* sheets_client.py:118  with file_lock(_sheets_lock_path())
NestSheetLock(p) ==
  /\ pc[p] = "sheet_wait"
  /\ FlockAcquire(p, SheetsLock)
  /\ pc' = [pc EXCEPT ![p] = "in_sheet"]
  /\ UNCHANGED <<ing, restNest>>

\* sheets_client.py:119-139  the write is done, update() returns; the caller
\* goes on to add_many
NestSheetDone(p) ==
  /\ pc[p] = "in_sheet"
  /\ SheetUnlock(p)
  /\ pc' = [pc EXCEPT ![p] = "store_wait"]
  /\ UNCHANGED <<ing, restNest>>

\* sheets_client.py:16, 134-139  the write raises: every "with file_lock"
\* block of the collector is left; its loop, if any, goes on
NestSheetFails(p) ==
  /\ pc[p] = "in_sheet"
  /\ flock' = [q \in DOMAIN flock |->
                 IF flock[q] = p /\ Level(q) > 1 THEN NoProc ELSE flock[q]]
  /\ pc' = [pc EXCEPT ![p] = AfterCollector(ing[p])]
  /\ ing' = [ing EXCEPT ![p] = NestAfter(@)]
  /\ UNCHANGED restNest

\* state.py:23  with file_lock(self.path + ".lock")
NestStoreLock(p) ==
  /\ pc[p] = "store_wait"
  /\ FlockAcquire(p, DedupLock)
  /\ pc' = [pc EXCEPT ![p] = "in_store"]
  /\ UNCHANGED <<ing, restNest>>

\* state.py:24-31  add_many returns: the store lock is dropped; an ingester
\* run by hand is done, a collector goes on
NestStoreDone(p) ==
  /\ pc[p] = "in_store"
  /\ FlockRelease(p, DedupLock)
  /\ pc' = [pc EXCEPT ![p] = IF ing[p].role = "ingest" THEN "done" ELSE "in_col"]
  /\ ing' = [ing EXCEPT ![p] = IF @.role = "ingest" THEN NoNest ELSE @]
  /\ UNCHANGED restNest

\* collect_coupang_browser.py:831-835 / collect_wadiz_qa.py:744-746  the
\* collector's block is left
NestColEnd(p) ==
  /\ pc[p] = "in_col"
  /\ FlockRelease(p, CollectorLock(ing[p].src))
  /\ pc' = [pc EXCEPT ![p] = AfterCollector(ing[p])]
  /\ ing' = [ing EXCEPT ![p] = NestAfter(@)]
  /\ UNCHANGED restNest

NestStep(p) ==
  \/ NestStart(p)
  \/ NestLoopLock(p)
  \/ NestCmd(p)
  \/ NestLoopEnd(p)
  \/ NestPreLock(p)
  \/ NestPreLoad(p)
  \/ NestColLock(p)
  \/ NestIngest(p)
  \/ NestSheetLock(p)
  \/ NestSheetDone(p)
  \/ NestSheetFails(p)
  \/ NestStoreLock(p)
  \/ NestStoreDone(p)
  \/ NestColEnd(p)

NextNest == \E p \in Procs : NestStep(p)

\* Every started process keeps taking steps (the OS schedules it; flock wakes
\* a waiter when the lock is dropped).
SpecNest == InitNest /\ [][NextNest]_vars /\ \A p \in Procs : WF_vars(NestStep(p))

NestWaits == {"loop_wait", "pre_wait", "col_wait", "sheet_wait", "store_wait"}

\* C36: a process takes a lock only while every lock it holds is of a lower
\* level (loop, then collector, then sheets or store lock), it never holds
\* the sheets lock and the store lock together, and every process waiting for
\* a lock gets it (no deadlock, no request waiting for ever).
C36_LockOrder ==
  /\ [][\A p \in Procs : \A path \in LockPaths :
          (flock'[path] = p /\ flock[path] # p) =>
             \A h \in Held(p) : Level(h) < Level(path)]_vars
  /\ [](\A p \in Procs : ~(flock[SheetsLock] = p /\ flock[DedupLock] = p))
  /\ \A p \in Procs : (pc[p] \in NestWaits) ~> (pc[p] \notin NestWaits)

\* C36 witness: a loop holds its lock and its collector's lock and waits for
\* the sheets lock, which an ingester holds, while a third process waits for
\* the collector lock.
C36_Witness ==
  \E p, q, r \in Procs :
    /\ ing[p].role = "loop" /\ pc[p] = "sheet_wait"
    /\ Cardinality(Held(p)) = 2
    /\ flock[SheetsLock] = q
    /\ pc[r] = "col_wait" /\ ing[r].src = ing[p].src

\* =========================================================================
\* SpecQueue: invocations of a bounded-time loop queued on its run lock
\*   run_platform_loop.py:59-66, run_browser_queue.py:114-121, lock.py:18
\* now is the clock; it advances while a collector command runs, also for the
\* invocations blocked in flock.
\* =========================================================================
QueueProcs == {"p1", "p2"}

\* The deadline taken after the lock was obtained.
LoopDeadlineAfterLock(start, locked, maxMinutes) == locked + maxMinutes

\* run_platform_loop.py:59, run_browser_queue.py:114
\* deadline = time.time() + cfg.max_minutes * 60, evaluated when main starts
\* (start), before file_lock is entered (locked: when flock returned)
LoopDeadline(start, locked, maxMinutes) == start + maxMinutes

NoQueue == [start |-> 0, locked |-> 0, cmd |-> 0, rounds |-> 0]

InitQueue ==
  /\ pc = [p \in Procs |-> "idle"]
  /\ flock = InitFlock
  /\ lk = InitLk
  /\ file = <<>>
  /\ am = <<>>
  /\ sink = <<>>
  /\ cfg \in LoopConfigs
  /\ now = 1
  /\ ing = [p \in Procs |-> NoQueue]
  /\ obs = <<>>
  /\ lockFile = NoProc

restQueue == <<lk, file, am, sink, cfg, obs, lockFile>>

\* run_platform_loop.py:59, run_browser_queue.py:114  main starts (a cron
\* tick) and fixes its deadline, then asks for the lock
QueueStart(p) ==
  /\ pc[p] = "idle"
  /\ ing' = [ing EXCEPT ![p].start = now]
  /\ pc' = [pc EXCEPT ![p] = "q_wait"]
  /\ UNCHANGED <<flock, now, restQueue>>

\* run_platform_loop.py:61, run_browser_queue.py:116, lock.py:18
\* flock(LOCK_EX) returns
QueueLock(p) ==
  /\ pc[p] = "q_wait"
  /\ FlockAcquire(p, LoopLock)
  /\ ing' = [ing EXCEPT ![p].locked = now]
  /\ pc' = [pc EXCEPT ![p] = "q_check"]
  /\ UNCHANGED <<now, restQueue>>

\* run_platform_loop.py:62,66, run_browser_queue.py:118,121
\* while time.time() < deadline; when it fails the with block is left
QueueCheck(p) ==
  /\ pc[p] = "q_check"
  /\ IF now < LoopDeadline(ing[p].start, ing[p].locked, cfg.maxMinutes)
       THEN /\ ing' = [ing EXCEPT ![p].cmd = 1, ![p].rounds = @ + 1]
            /\ pc' = [pc EXCEPT ![p] = "q_run"]
            /\ UNCHANGED flock
       ELSE /\ FlockRelease(p, LoopLock)
            /\ pc' = [pc EXCEPT ![p] = "q_exit"]
            /\ UNCHANGED ing
  /\ UNCHANGED <<now, restQueue>>

\* run_platform_loop.py:23-32,63-64, run_browser_queue.py:30-40,80-85
\* _run(cmd, timeout_s=...) and the sleep after it; TimeoutExpired leaves the
\* with block and main
QueueRun(p) ==
  /\ pc[p] = "q_run"
  /\ \E outcome \in CmdOutcomes, dt \in CmdTicks :
       /\ now' = now + dt
       /\ IF outcome = "timeout"
            THEN /\ FlockRelease(p, LoopLock)
                 /\ pc' = [pc EXCEPT ![p] = "q_exit"]
                 /\ UNCHANGED ing
            ELSE /\ IF ing[p].cmd < CmdsPerCheck(cfg)
                      THEN /\ ing' = [ing EXCEPT ![p].cmd = @ + 1]
                           /\ pc' = pc
                      ELSE /\ pc' = [pc EXCEPT ![p] = "q_check"]
                           /\ UNCHANGED ing
                 /\ UNCHANGED flock
  /\ UNCHANGED restQueue

NextQueue ==
  \E p \in QueueProcs :
    \/ QueueStart(p)
    \/ QueueLock(p)
    \/ QueueCheck(p)
    \/ QueueRun(p)

SpecQueue == InitQueue /\ [][NextQueue]_vars

\* C37: the time an invocation spent blocked on the run lock counts against
\* max_minutes: it starts a round of collector commands only before its start
\* time plus max_minutes, and an invocation that obtained the lock at or
\* after that time runs no command and leaves.
C37_DeadlineFromStart ==
  /\ [][\A p \in QueueProcs :
          (pc[p] = "q_check" /\ pc'[p] = "q_run") =>
             now < ing[p].start + cfg.maxMinutes]_vars
  /\ [](\A p \in QueueProcs :
          (pc[p] \in {"q_check", "q_run", "q_exit"}
             /\ ing[p].locked >= ing[p].start + cfg.maxMinutes) =>
                ing[p].rounds = 0 /\ pc[p] # "q_run")
  /\ [][\A p \in QueueProcs :
          (pc[p] = "q_check" /\ ing[p].locked >= ing[p].start + cfg.maxMinutes) =>
             pc'[p] \in {"q_check", "q_exit"}]_vars

\* C37 witness: an invocation that waited behind a run which went on past the
\* waiting invocation's deadline got the lock and has left without running a
\* command.
C37_Witness ==
  \E p, q \in QueueProcs :
    /\ p # q
    /\ ing[q].rounds > 0
    /\ pc[p] = "q_exit"
    /\ ing[p].start < ing[p].locked
    /\ ing[p].locked >= ing[p].start + cfg.maxMinutes
    /\ ing[p].rounds = 0

\* =========================================================================
\* SpecCursor: the cursor batching of collect_reviews.main over runs
\*   collect_reviews.py:109-134
\* cfg = the run's arguments and the URL list, ing = the cursor file,
\* obs = what the runs checked.
\* =========================================================================
MaxUrls == 3          \* product URLs in seen-product-urls.txt
MaxCursorRuns == 4    \* runs of collect_reviews.main

\* collect_reviews.py:110-113  imweb_all: the sorted list of the distinct
\* product URLs (URL i of L is the number i)
ImwebAll(L) == [i \in 1..L |-> i]

\* Python's s[a:b] for a list s and integers a, b (a negative bound counts
\* from the end; the bounds are clamped to the list); s is indexed from 0 in
\* the code and from 1 here.
PyBound(len, x) == IF x < 0 THEN Max2(len + x, 0) ELSE Min2(x, len)
PySlice(s, a, b) == SubSeq(s, PyBound(Len(s), a) + 1, PyBound(Len(s), b))

\* collect_reviews.py:125  cursor = max(cursor, 0) % len(imweb_all)
StartCursor(cursor, L) == Max2(cursor, 0) % L

\* collect_reviews.py:126  n = min(max_products, len(imweb_all))
BatchSize(maxProducts, L) == Min2(maxProducts, L)

\* collect_reviews.py:127-130  chunk = imweb_all[cursor:cursor + n], filled
\* up from the head of the list when it is shorter than n
CursorChunk(all, cursor, n) ==
  LET chunk == PySlice(all, cursor, cursor + n)
  IN IF Len(chunk) < n THEN chunk \o PySlice(all, 0, n - Len(chunk)) ELSE chunk

\* collect_reviews.py:131 leaving the cursor where it was.
NextCursorStays(cursor, n, L) == cursor

\* collect_reviews.py:131  next_cursor = (cursor + n) % len(imweb_all)
NextCursor(cursor, n, L) == (cursor + n) % L

\* --max-products is any integer (argparse type=int); the cursor file holds
\* what an earlier run wrote for a list that may have had another length, or
\* nothing (read as 0), or a number put there by hand.
CursorConfigs == [L : 1..MaxUrls, maxProducts : (-1)..(MaxUrls + 1)]

InitCursor ==
  /\ pc = [p \in Procs |-> "idle"]
  /\ flock = InitFlock
  /\ lk = InitLk
  /\ file = <<>>
  /\ am = <<>>
  /\ sink = <<>>
  /\ cfg \in CursorConfigs
  /\ now = 1
  /\ ing \in [cursor : (-1)..MaxUrls]
  /\ obs = [runs |-> 0, from |-> 0, checked |-> <<>>, recent |-> <<>>]
  /\ lockFile = NoProc

\* collect_reviews.py:109-134, 157  one run: read the cursor, take the chunk,
\* write the next cursor, check the URLs of the chunk
CursorRun ==
  /\ obs.runs < MaxCursorRuns
  /\ LET all == ImwebAll(cfg.L)
         cursor == StartCursor(ing.cursor, cfg.L)
         n == BatchSize(cfg.maxProducts, cfg.L)
         chunk == CursorChunk(all, cursor, n)
     IN /\ ing' = [ing EXCEPT !.cursor = NextCursor(cursor, n, cfg.L)]
        /\ obs' = [runs |-> obs.runs + 1, from |-> cursor, checked |-> chunk,
                   recent |-> <<Range(chunk)>> \o obs.recent]
  /\ UNCHANGED <<pc, flock, lk, file, am, sink, cfg, now, lockFile>>

NextCursorRun == CursorRun

SpecCursor == InitCursor /\ [][NextCursorRun]_vars

CeilDiv(a, b) == (a + b - 1) \div b

\* The URLs checked by the last k runs.
CheckedByLast(k) == UNION {obs.recent[i] : i \in 1..k}

\* What each run does for a batch size n, and what ceil(L/n) consecutive
\* runs cover (stated for n >= 1, where ceil(L/n) is defined).
CursorBatching(n) ==
  obs.runs > 0 =>
    /\ Len(obs.checked) = n
    /\ \A i \in 1..n : obs.checked[i] = ((obs.from + i - 1) % cfg.L) + 1
    /\ Cardinality(Range(obs.checked)) = n
    /\ ing.cursor = (obs.from + n) % cfg.L
    /\ (n >= 1 /\ obs.runs >= CeilDiv(cfg.L, n)) =>
          CheckedByLast(CeilDiv(cfg.L, n)) = 1..cfg.L

\* C39 as stated: for every value of max_products, each run checks exactly
\* n = min(max_products, L) distinct URLs from the persisted cursor on
\* (wrapping around), advances the cursor by n modulo L, and ceil(L/n)
\* consecutive runs check every URL.
C39_CursorAnyMax == CursorBatching(Min2(cfg.maxProducts, cfg.L))

\* C39 amended: the same for max_products >= 1.
C39_CursorBatches ==
  cfg.maxProducts >= 1 => CursorBatching(Min2(cfg.maxProducts, cfg.L))

\* C39 witness: three URLs in batches of two; the second run started at the
\* last URL and wrapped around, and the two runs checked all three URLs.
C39_Witness ==
  /\ cfg.L = 3 /\ cfg.maxProducts = 2
  /\ obs.runs = 2
  /\ obs.from = 2
  /\ obs.checked = <<3, 1>>
  /\ CheckedByLast(2) = {1, 2, 3}

\* =========================================================================
\* SpecDaily: runs of run_daily.main, one after the other
\*   run_daily.py:76-152, state.py:14-31
\* file = seen-product-urls.txt, sink = the product_url column of the
\* platform_products section, top to bottom.
\* =========================================================================
MaxFound == 2         \* product links found by one run, over all its sources

DailyUrls == {"u1", "u2"}

NoDaily == [found |-> <<>>, newUrls |-> <<>>]

InitDaily ==
  /\ pc = [p \in Procs |-> "idle"]
  /\ flock = InitFlock
  /\ lk = InitLk
  /\ file = <<>>
  /\ am = <<>>
  /\ sink = <<>>
  /\ cfg = <<>>
  /\ now = 1
  /\ ing = NoDaily
  /\ obs = [runs |-> 0, reported |-> 0, recorded |-> 0]
  /\ lockFile = NoProc

\* run_daily.py:128-131  the rows whose URL is not in existing, in the order
\* found (existing is the set loaded before the loop and is not added to)
NewUrls(found, existing) == SelectSeq(found, LAMBDA u : u \notin existing)

\* run_daily.py:76-131  the sources are fetched one after the other and their
\* product links collected into rows_platform_products (found: the links in
\* that order, a URL listed under two sources twice); existing =
\* seen_products.load(); new_rows / new_urls
DailyDiscover ==
  /\ pc["p1"] = "idle"
  /\ obs.runs < MaxRuns
  /\ \E found \in SeqsUpTo(DailyUrls, MaxFound) :
       ing' = [found |-> found, newUrls |-> NewUrls(found, Load(file))]
  /\ obs' = [obs EXCEPT !.runs = @ + 1]
  /\ pc' = [pc EXCEPT !["p1"] = "d_store"]
  /\ UNCHANGED <<flock, lk, file, am, sink, cfg, now, lockFile>>

\* run_daily.py:133  counts["product_urls_new"] = seen_products.add_many(new_urls)
DailyStore ==
  /\ pc["p1"] = "d_store"
  /\ FlockFree(DedupLock)
  /\ file' = AddMany(file, ing.newUrls)
  /\ obs' = [obs EXCEPT !.reported = AddManyResult(file, ing.newUrls),
                        !.recorded = Cardinality(Load(file') \ Load(file))]
  /\ pc' = [pc EXCEPT !["p1"] = "d_append"]
  /\ UNCHANGED <<flock, lk, am, sink, cfg, now, ing, lockFile>>

\* run_daily.py:136-147  if new_rows: append_fixed(P..T, sentinel column R)
\* writes the rows below the last URL row
DailyAppend ==
  /\ pc["p1"] = "d_append"
  /\ sink' = sink \o ing.newUrls
  /\ pc' = [pc EXCEPT !["p1"] = "idle"]
  /\ UNCHANGED <<flock, lk, file, am, cfg, now, ing, obs, lockFile>>

\* run_daily.py:148-149  append_fixed raises: the error is recorded and the
\* run goes on
DailyAppendFails ==
  /\ pc["p1"] = "d_append"
  /\ ing.newUrls # <<>>
  /\ pc' = [pc EXCEPT !["p1"] = "idle"]
  /\ UNCHANGED <<flock, lk, file, am, sink, cfg, now, ing, obs, lockFile>>

NextDaily ==
  \/ DailyDiscover
  \/ DailyStore
  \/ DailyAppend
  \/ DailyAppendFails

SpecDaily == InitDaily /\ [][NextDaily]_vars

\* C40: over any sequence of runs no product URL is in two rows of the
\* platform_products section, and the product_urls_new a run reports is the
\* number of distinct URLs it newly recorded, also when a URL was found under
\* two sources in one run.
C40_ProductUrlOnce ==
  /\ \A i, j \in DOMAIN sink : i # j => sink[i] # sink[j]
  /\ obs.reported = obs.recorded
====
